---- MODULE Spec2Model ----
(***************************************************************************)
(* The benchmark sweep of model_benchmark.py: benchmark(),                 *)
(* estimate_inference_time(), count_flops() and the reporting calls        *)
(* (DataFrame.to_csv, save_plot), as a state machine whose program counter *)
(* pc walks the statements of benchmark().                                 *)
(*                                                                         *)
(* Numbers that are floats in the program are exact rationals <<n, d>>     *)
(* here (d > 0, lowest terms); a missing table cell (NaN) is <<>>.         *)
(***************************************************************************)
EXTENDS Integers, Sequences, FiniteSets, TLC

(***************************************************************************)
(* Bounds of the model.                                                    *)
(***************************************************************************)
MaxTrials == 2
MaxSamples == 2
MaxSeed == 2
MaxLen == 120

(***************************************************************************)
(* Program constants.                                                      *)
(***************************************************************************)
NUM_COMMON_COLUMNS == 6
TABLE_LEGENDS == <<"Model", "Params", "FLOPs", "InputH", "InputW", "InputPx",
                   "Time(ms)", "Memory(GB)">>
TABLE_KEYS == <<"model", "params", "flops", "input_h", "input_w", "input_px",
                "time", "memory">>
BytesPerGiB == 1073741824
MsPerSecond == 1000
RoundDecimals == 3

None == "None"

(* a local variable that no statement has assigned yet; the code never reads *)
(* it in that state                                                         *)
Unbound == 0 - 1
NaN == <<>>

(***************************************************************************)
(* Exact rational arithmetic standing for the program's float arithmetic.  *)
(***************************************************************************)
Abs(x) == IF x < 0 THEN -x ELSE x
Min(a, b) == IF a < b THEN a ELSE b

RECURSIVE GCD(_, _)
GCD(a, b) == IF b = 0 THEN a ELSE GCD(b, a % b)

Rat(n, d) ==
    LET g == GCD(Abs(n), d) IN <<n \div g, d \div g>>

RAdd(p, q) ==
    LET g == GCD(p[2], q[2])
        l == (p[2] \div g) * q[2]
    IN Rat(p[1] * (l \div p[2]) + q[1] * (l \div q[2]), l)

RSub(p, q) == RAdd(p, <<-q[1], q[2]>>)

RMulInt(p, k) ==
    LET g == GCD(Abs(k), p[2]) IN Rat(p[1] * (k \div g), p[2] \div g)

RDivInt(p, k) ==
    LET g == GCD(Abs(p[1]), k) IN Rat(p[1] \div g, p[2] * (k \div g))

RLess(p, q) ==
    LET g == GCD(p[2], q[2])
    IN p[1] * (q[2] \div g) < q[1] * (p[2] \div g)

RECURSIVE RSum(_)
RSum(s) ==
    IF s = <<>> THEN <<0, 1>>
    ELSE IF Len(s) = 1 THEN s[1]
    ELSE LET h == Len(s) \div 2
         IN RAdd(RSum(SubSeq(s, 1, h)), RSum(SubSeq(s, h + 1, Len(s))))

Pow10(k) == IF k = 3 THEN 1000 ELSE IF k = 2 THEN 100 ELSE IF k = 1 THEN 10 ELSE 1

(* numpy's round: to RoundDecimals decimals, ties to the even neighbour.   *)
Round3(q) ==
    IF q = NaN THEN NaN
    ELSE LET s == Pow10(RoundDecimals)
             x == RMulInt(q, s)
             f == x[1] \div x[2]
             r == x[1] % x[2]
             t == IF 2 * r < x[2] THEN f
                  ELSE IF 2 * r > x[2] THEN f + 1
                  ELSE IF f % 2 = 0 THEN f ELSE f + 1
         IN Rat(t, s)

(***************************************************************************)
(* Python list helpers.                                                    *)
(***************************************************************************)
Range(s) == {s[k] : k \in DOMAIN s}

(* seq[a:b] with 0-based a, b *)
PySlice(s, a, b) == SubSeq(s, a + 1, Min(b, Len(s)))

(* [x] * n *)
Repeat(x, n) == [k \in 1..n |-> x]

(* list.sort() of a list of numbers: ascending, equal elements keep their order *)
SortAsc(s) ==
    LET n == Len(s)
        before(a, b) == RLess(s[a], s[b]) \/ (~RLess(s[b], s[a]) /\ a < b)
        rank == SubSeq([j \in 1..n |-> Cardinality({m \in 1..n : before(m, j)}) + 1], 1, n)
    IN SubSeq([k \in 1..n |-> s[CHOOSE j \in 1..n : rank[j] = k]], 1, n)

(* {c: [v] for c, v in zip(cols, vals)} *)
ZipDict(cols, vals) ==
    [c \in {cols[k] : k \in 1..Min(Len(cols), Len(vals))} |->
        vals[CHOOSE k \in 1..Min(Len(cols), Len(vals)) : cols[k] = c]]

(* dict.update: the new entries override *)
DictUpdate(d, new) == new @@ d

(***************************************************************************)
(* The reduction of a trial's samples (benchmark(), lines 316-335).        *)
(***************************************************************************)
SpeedModes == {"avg", "median", "perc1", "perc5", "perc10"}
MemoryModes == SpeedModes \cup {"first"}
IndexModes == {"median", "perc1", "perc5", "perc10"}

(* the median index rounded up *)
ModeIndexCeil(mode, L) ==
    CASE mode = "median" -> (L + 1) \div 2
      [] mode = "perc1" -> L \div 100
      [] mode = "perc5" -> L \div 20
      [] mode = "perc10" -> L \div 10

(* the index expression of each percentile entry: len(x) // k *)
ModeIndex(mode, L) ==
    CASE mode = "median" -> L \div 2
      [] mode = "perc1" -> L \div 100
      [] mode = "perc5" -> L \div 20
      [] mode = "perc10" -> L \div 10

(* x[k] is an IndexError unless 0 <= k < len(x) *)
IndexOK(s, k) == k + 1 \in DOMAIN s

(* np.array(x).mean(): nan (and a warning, no exception) for an empty x *)
Mean(s) == IF s = <<>> THEN NaN ELSE RDivInt(RSum(s), Len(s))

(* building the dict of statistics raises when one index is out of range *)
StatsRaise(s) == \E m \in IndexModes : ~IndexOK(s, ModeIndex(m, Len(s)))

(* the five statistics of an ascending list *)
Stats(s) ==
    [m \in SpeedModes |->
        IF m = "avg" THEN Mean(s) ELSE s[ModeIndex(m, Len(s)) + 1]]

(* line 317-323, of the sorted all_times *)
final_times_of(times) == Stats(times)

(* the empty list left as it is *)
MemoriesAsIs(mems) == mems

(* line 325-326: if len(all_memories) == 0: all_memories = [0] *)
MemoriesOrZero(mems) == IF Len(mems) = 0 THEN << <<0, 1>> >> ELSE mems

(* line 328-335, of the sorted all_memories *)
final_memories_of(mems, first) ==
    [m \in MemoryModes |-> IF m = "first" THEN first ELSE Stats(mems)[m]]

(***************************************************************************)
(* The columns of the table (benchmark(), lines 205-217).                  *)
(***************************************************************************)
Datatypes == {"fp16", "fp32"}

(* f"{TABLE_LEGENDS[6]}-{dtype_str}" and f"{TABLE_LEGENDS[7]}-{dtype_str}" *)
TimeCol(d) == IF d = "fp16" THEN "Time(ms)-fp16" ELSE "Time(ms)-fp32"
MemoryCol(d) == IF d = "fp16" THEN "Memory(GB)-fp16" ELSE "Memory(GB)-fp32"

(* df_dict[key] = ...: a key already in the dict keeps its position *)
AddKey(keys, k) == IF k \in Range(keys) THEN keys ELSE Append(keys, k)

RECURSIVE AddDtypeKeys(_, _)
AddDtypeKeys(keys, dts) ==
    IF dts = <<>> THEN keys
    ELSE AddDtypeKeys(AddKey(AddKey(keys, TimeCol(Head(dts))), MemoryCol(Head(dts))),
                      Tail(dts))

df_columns(datatypes) ==
    AddDtypeKeys(SubSeq(TABLE_LEGENDS, 1, NUM_COMMON_COLUMNS), datatypes)

(* the slice without the offset of the precision *)
DtypeColumnsNoOffset(cols, idtype) ==
    PySlice(cols, NUM_COMMON_COLUMNS, NUM_COMMON_COLUMNS + 2)

(* df.columns[NUM_COMMON_COLUMNS + 2*idtype : NUM_COMMON_COLUMNS + 2*(idtype+1)] *)
DtypeColumns(cols, idtype) ==
    PySlice(cols, NUM_COMMON_COLUMNS + 2 * idtype, NUM_COMMON_COLUMNS + 2 * (idtype + 1))

(* pd.concat([df, new_df]): the row has every column, NaN where the dict has none *)
RowOf(cols, dict) ==
    [c \in Range(cols) \cup DOMAIN dict |-> IF c \in DOMAIN dict THEN dict[c] ELSE NaN]

(* df.round(3): every float cell of the row *)
RoundRow(row) ==
    [c \in DOMAIN row |-> IF c = "Model" THEN row[c] ELSE Round3(row[c])]

RoundTable(t) == [k \in DOMAIN t |-> RoundRow(t[k])]

(***************************************************************************)
(* The collaborators of the sweep: the model registry, the parameter       *)
(* count, the FLOP profile, the timer and the device-memory probe.         *)
(***************************************************************************)
(* ptlflow.get_model_names() and ptlflow._models_dict.keys() *)
AvailableModelNames == <<"fastflownet", "gmflownet">>

(* a Python None where a list is expected *)
NoList == <<None>>

(* count_parameters(model) *)
CountParameters(name) == IF name = "fastflownet" THEN 1366000 ELSE 9345678

(* the sum of k.flops over the profile of one forward call (count_flops) *)
ProfiledFlops(name, h, w) ==
    (IF name = "fastflownet" THEN 1 ELSE 3) * h * w * 500000

ParamsUnit == 1000000
FlopsUnit == 1000000000

(* the elapsed seconds the timer reports for one forward call *)
TimerReadings == << <<3, 1000>>, <<1, 16000>>, <<1, 500>> >>

(* the bytes pynvml reports as used *)
MemoryReadings == <<67108864, 100663296, 135266304>>

(* the k-th reading of a cyclic list *)
Reading(list, k) == list[(k % Len(list)) + 1]

(***************************************************************************)
(* Configurations: the command line (args) and the machine (env).          *)
(***************************************************************************)
DefaultArgs ==
    [all |-> FALSE, select |-> NoList, model |-> "fastflownet", exclude |-> NoList,
     input_size |-> <<2, 3>>, datatypes |-> <<"fp32">>,
     num_trials |-> 1, num_samples |-> 1,
     final_speed_mode |-> "median", final_memory_mode |-> "first",
     batch_size |-> 1,
     csv_path |-> None, plot_axes |-> NoList, plot_log_x |-> FALSE, plot_log_y |-> FALSE]

DefaultEnv == [device_handle |-> "handle", pynvml |-> TRUE, cuda |-> TRUE, seed |-> 0]

Selections ==
    {[all |-> TRUE, select |-> NoList, model |-> None],
     [all |-> TRUE, select |-> <<"unknown">>, model |-> None],
     [all |-> FALSE, select |-> <<"fastflownet">>, model |-> None],
     [all |-> FALSE, select |-> <<"gmflownet", "fastflownet">>, model |-> None],
     [all |-> FALSE, select |-> <<"fastflownet", "unknown">>, model |-> None],
     [all |-> FALSE, select |-> NoList, model |-> "gmflownet"],
     [all |-> FALSE, select |-> <<>>, model |-> "fastflownet"]}

Excludes == {NoList, <<"gmflownet">>, <<"fastflownet">>, <<"unknown">>}

InputSizes == {<<2, 3>>, <<2, 3, 4, 5>>, <<2, 3, 4>>, <<3>>}

DatatypeLists == {<<"fp32">>, <<"fp16", "fp32">>, <<"fp32", "fp16">>, <<"fp32", "fp32">>}

(* the sweep structure varies, the measurement is the default one *)
SweepScenarios ==
    {[args |-> [DefaultArgs EXCEPT !.all = sel.all, !.select = sel.select,
                                   !.model = sel.model, !.exclude = ex,
                                   !.input_size = sz, !.datatypes = dts],
      env |-> DefaultEnv] :
        sel \in Selections, ex \in Excludes, sz \in InputSizes, dts \in DatatypeLists}

(* the measurement varies, the sweep is one model at one input size *)
MeasureScenarios ==
    {[args |-> [DefaultArgs EXCEPT !.num_trials = nt, !.num_samples = ns,
                                   !.final_speed_mode = sm, !.final_memory_mode = mm,
                                   !.batch_size = bs],
      env |-> [DefaultEnv EXCEPT !.seed = sd]] :
        nt \in 0..MaxTrials, ns \in 0..MaxSamples,
        sm \in SpeedModes, mm \in MemoryModes, bs \in {1, 2}, sd \in 0..MaxSeed}

(* the machine varies *)
DeviceScenarios ==
    {[args |-> [DefaultArgs EXCEPT !.final_memory_mode = mm, !.num_trials = nt],
      env |-> [device_handle |-> dh, pynvml |-> nv, cuda |-> cu, seed |-> sd]] :
        mm \in MemoryModes, nt \in 1..MaxTrials,
        dh \in {None, "handle"}, nv \in BOOLEAN, cu \in BOOLEAN, sd \in 0..MaxSeed}

(* two precisions measured with more than one repetition and sample *)
PrecisionScenarios ==
    {[args |-> [DefaultArgs EXCEPT !.datatypes = <<"fp16", "fp32">>,
                                   !.num_trials = MaxTrials, !.num_samples = MaxSamples,
                                   !.final_speed_mode = sm, !.final_memory_mode = mm],
      env |-> [DefaultEnv EXCEPT !.seed = sd]] :
        sm \in SpeedModes, mm \in MemoryModes, sd \in 0..MaxSeed}

(* sweeps of every shape: names that are not registered, an input_size of   *)
(* odd length, models that are excluded, no repetition or sample to time    *)
TerminationScenarios ==
    {[args |-> [DefaultArgs EXCEPT !.all = sel.all, !.select = sel.select,
                                   !.model = sel.model, !.exclude = ex,
                                   !.input_size = sz, !.datatypes = <<"fp16", "fp32">>,
                                   !.num_trials = nt, !.num_samples = ns],
      env |-> DefaultEnv] :
        sel \in {[all |-> TRUE, select |-> NoList, model |-> None],
                 [all |-> FALSE, select |-> <<"fastflownet", "unknown">>, model |-> None],
                 [all |-> FALSE, select |-> NoList, model |-> "gmflownet"]},
        ex \in {NoList, <<"gmflownet">>, <<"unknown">>},
        sz \in {<<2, 3>>, <<3>>}, nt \in {0, 1}, ns \in {0, 1}}
    \cup {[args |-> [DefaultArgs EXCEPT !.input_size = <<2, 3, 4, 5>>, !.num_trials = nt],
           env |-> DefaultEnv] : nt \in {0, 2}}

(* a precision given more than once (--datatypes takes one or more values) *)
RepeatedScenarios ==
    {[args |-> [DefaultArgs EXCEPT !.datatypes = <<"fp16", "fp16", "fp32">>],
      env |-> [DefaultEnv EXCEPT !.seed = sd]] : sd \in 0..MaxSeed}

Scenarios ==
    SweepScenarios \cup MeasureScenarios \cup DeviceScenarios \cup PrecisionScenarios
        \cup RepeatedScenarios

(* a torch module: where it lives, its precision, and which statement built it *)
NoModel == [name |-> None, device |-> None, dtype |-> None, built |-> <<>>]

VARIABLES
    args,                  \* the Namespace passed to benchmark()
    env,                   \* device_handle, pynvml, torch.cuda.is_available(), readings
    pc,                    \* the statement benchmark() is at
    columns,               \* df.columns
    df,                    \* the table: a sequence of rows
    model_names, exclude,
    device_initial_used,
    isize, input_size,     \* the input-size loop
    mi, mname,             \* the model loop: position in model_names, current name
    new_df_dict,
    idtype, dtype_str,     \* the precision loop
    all_times, all_memories, first_memory_used,
    irep, device_start_rep_used,
    model, model_params,
    resident,              \* the model instances that are referenced and on the device
    i, time_vals, timer,   \* estimate_inference_time: loop index, result, Timer total
    flops, final_times, final_memories,
    files,                 \* output directory: file name -> rows written
    wpos,                  \* rows of df already written by the running to_csv
    df_tmp,                \* save_plot: the copy that is plotted, rows with their index
    plots,                 \* output directory: the plot documents written
    (* history variables, not program state *)
    attempts,              \* <<group, model position, precision position>> -> trials started
    outcomes,              \* per precision position of the current row: what its trial did
    groups,                \* the input-size groups run so far
    raised,                \* the combinations whose trial ended in the except clause
    bodies,                \* per finished (model, input size): did a trial succeed
    trace,                 \* the timed calls and the memory snapshots of the current trial
    steps,                 \* the steps of the current repetition, in order
    log,                   \* the reporting calls made so far
    used,                  \* what has happened at all: constructions, forward calls
    (* the frames of the model methods that are checked on their own *)
    scope,                 \* ScopeFlow.forward: its position and local variables
    video                  \* VideoFlowMOF.forward: its position and local variables

progvars == <<args, env, pc, columns, df, model_names, exclude, device_initial_used,
              isize, input_size, mi, mname, new_df_dict, idtype, dtype_str,
              all_times, all_memories, first_memory_used, irep, device_start_rep_used,
              model, model_params, resident, i, time_vals, timer, flops, final_times, final_memories,
              files, wpos, df_tmp, plots>>
histvars == <<attempts, outcomes, groups, raised, bodies, trace, steps, log, used>>
framesv == <<scope, video>>
vars == <<progvars, histvars, framesv>>

(* a method that is not running *)
NoFrame == [pc |-> "idle"]

cfgv == <<args, env>>
plotv == <<df_tmp, plots>>
tablev == <<columns, df, files, wpos>>
selv == <<model_names, exclude, device_initial_used>>
sizev == <<isize, input_size>>
modelloopv == <<mi, mname, new_df_dict>>
dtypev == <<idtype, dtype_str>>
trialv == <<all_times, all_memories, first_memory_used>>
repv == <<irep, device_start_rep_used>>
instv == <<model, model_params, resident>>
estv == <<i, time_vals, timer>>
redv == <<flops, final_times, final_memories>>

(***************************************************************************)
(* The state when benchmark(args, device_handle) is entered.               *)
(***************************************************************************)
InitOf(scenarios) ==
    /\ \E sc \in scenarios : args = sc.args /\ env = sc.env
    /\ pc = "start"
    /\ columns = <<>> /\ df = <<>> /\ files = <<>> /\ wpos = 0
    /\ model_names = <<>> /\ exclude = <<>> /\ device_initial_used = Unbound
    /\ isize = 0 /\ input_size = <<>>
    /\ mi = 0 /\ mname = None /\ new_df_dict = <<>>
    /\ idtype = 0 /\ dtype_str = None
    /\ all_times = <<>> /\ all_memories = <<>> /\ first_memory_used = <<0, 1>>
    /\ irep = 0 /\ device_start_rep_used = Unbound
    /\ model = NoModel /\ model_params = Unbound /\ resident = {}
    /\ i = 0 /\ time_vals = <<>> /\ timer = <<0, 1>>
    /\ flops = Unbound /\ final_times = <<>> /\ final_memories = <<>>
    /\ df_tmp = <<>> /\ plots = <<>>
    /\ attempts = <<>> /\ outcomes = <<>> /\ groups = <<>> /\ steps = <<>>
    /\ raised = {} /\ bodies = <<>> /\ trace = [timed |-> <<>>, reps |-> <<>>]
    /\ log = <<>>
    /\ used = [constructed |-> 0, forward |-> 0, any_constructed |-> FALSE,
               any_forward |-> FALSE, profiled |-> <<>>, counted |-> <<>>]
    /\ scope = NoFrame /\ video = NoFrame

Init == InitOf(Scenarios)

ProbePresent == env.pynvml /\ env.device_handle # None

(* the position of a call in the sweep, which selects the reading it gets *)
CallKey == env.seed + isize + mi + 2 * idtype + irep

(***************************************************************************)
(* benchmark(), lines 205-246: the table, the model list, the checks.      *)
(***************************************************************************)
(* line 205-220 *)
Setup ==
    /\ pc = "start"
    /\ columns' = df_columns(args.datatypes)
    /\ df' = <<>>
    /\ pc' = "select_models"
    /\ UNCHANGED <<framesv, cfgv, plotv, files, wpos, selv, sizev, modelloopv, dtypev, trialv, repv,
                   instv, estv, redv, histvars>>

AllRegistered(names) == \A k \in DOMAIN names : names[k] \in Range(AvailableModelNames)

(* line 222-233 *)
SelectModels ==
    /\ pc = "select_models"
    /\ IF args.all
       THEN model_names' = AvailableModelNames /\ pc' = "check_exclude"
       ELSE IF args.select # NoList /\ Len(args.select) > 0
       THEN IF AllRegistered(args.select)
            THEN model_names' = args.select /\ pc' = "check_exclude"
            ELSE pc' = "raised" /\ UNCHANGED model_names
       ELSE model_names' = <<args.model>> /\ pc' = "check_exclude"
    /\ UNCHANGED <<framesv, cfgv, plotv, tablev, exclude, device_initial_used, sizev, modelloopv,
                   dtypev, trialv, repv, instv, estv, redv, histvars>>

(* line 235-240 *)
CheckExclude ==
    /\ pc = "check_exclude"
    /\ IF args.exclude = NoList
       THEN exclude' = <<>> /\ pc' = "check_input_size"
       ELSE /\ exclude' = args.exclude
            /\ pc' = IF AllRegistered(args.exclude) THEN "check_input_size" ELSE "raised"
    /\ UNCHANGED <<framesv, cfgv, plotv, tablev, model_names, device_initial_used, sizev, modelloopv,
                   dtypev, trialv, repv, instv, estv, redv, histvars>>

(* no check of the length *)
AnyLength(list) == TRUE

(* line 242: the asserted condition *)
EvenLength(list) == (Len(list) % 2) = 0

(* line 242 *)
CheckInputSize ==
    /\ pc = "check_input_size"
    /\ pc' = IF EvenLength(args.input_size) THEN "initial_snapshot" ELSE "raised"
    /\ UNCHANGED <<framesv, cfgv, plotv, tablev, selv, sizev, modelloopv, dtypev, trialv, repv,
                   instv, estv, redv, histvars>>

(* line 244-246 *)
InitialSnapshot ==
    /\ pc = "initial_snapshot"
    /\ pc' = "for_isize"
    /\ device_initial_used' =
           IF ProbePresent THEN Reading(MemoryReadings, env.seed)
           ELSE device_initial_used
    /\ isize' = 0
    /\ UNCHANGED <<framesv, cfgv, plotv, tablev, model_names, exclude, input_size, modelloopv, dtypev,
                   trialv, repv, instv, estv, redv, histvars>>

(***************************************************************************)
(* The three loops (lines 248-256).                                        *)
(***************************************************************************)
(* a window that advances by one value *)
InputSizeSliding(list, k) == PySlice(list, k \div 2, (k \div 2) + 2)

(* line 249: args.input_size[isize : isize + 2] *)
InputSizeAt(list, k) == PySlice(list, k, k + 2)

(* line 248-249: for isize in range(0, len(args.input_size), 2) *)
ForInputSize ==
    /\ pc = "for_isize"
    /\ IF isize < Len(args.input_size)
       THEN /\ input_size' = InputSizeAt(args.input_size, isize)
            /\ groups' = Append(groups, input_size')
            /\ mi' = 1
            /\ pc' = "for_model"
       ELSE /\ pc' = "return"
            /\ UNCHANGED <<input_size, groups, mi>>
    /\ UNCHANGED <<framesv, cfgv, plotv, tablev, selv, isize, mname, new_df_dict, dtypev, trialv, repv,
                   instv, estv, redv, attempts, trace, outcomes, raised, bodies, steps,
                   log, used>>

(* the exclusion honoured in all-models mode only *)
ExcludedInAllMode(name, list) == args.all /\ name \in Range(list)

(* line 252: if mname in exclude *)
Excluded(name, list) == name \in Range(list)

(* the list walked from its end *)
ModelAtReversed(names, k) == names[Len(names) + 1 - k]

(* line 251: the k-th model of the iteration over model_names *)
ModelAt(names, k) == names[k]

(* line 251-255: for mname in model_names; mi is the position of the iteration *)
ForModel ==
    /\ pc = "for_model"
    /\ IF mi <= Len(model_names)
       THEN /\ mname' = ModelAt(model_names, mi)
            /\ IF Excluded(mname', exclude)
               THEN /\ mi' = mi + 1
                    /\ UNCHANGED <<pc, new_df_dict, idtype, outcomes>>
               ELSE /\ new_df_dict' = <<>>
                    /\ idtype' = 0
                    /\ outcomes' = <<>>
                    /\ pc' = "for_dtype"
                    /\ UNCHANGED mi
            /\ UNCHANGED isize
       ELSE /\ isize' = isize + 2
            /\ pc' = "for_isize"
            /\ UNCHANGED <<mi, mname, new_df_dict, idtype, outcomes>>
    /\ UNCHANGED <<framesv, cfgv, plotv, tablev, selv, input_size, dtype_str, trialv, repv,
                   instv, estv, redv, attempts, trace, groups, raised, bodies, steps, log, used>>

(* the list carried over from the previous trial *)
KeepTimes(old) == old

(* line 258: all_times = [] *)
NewTimes(old) == <<>>

(* line 256-261: for idtype, dtype_str in enumerate(args.datatypes); try: ... *)
ForDtype ==
    /\ pc = "for_dtype"
    /\ IF idtype < Len(args.datatypes)
       THEN /\ dtype_str' = args.datatypes[idtype + 1]
            /\ all_times' = NewTimes(all_times)
            /\ all_memories' = <<>>
            /\ first_memory_used' = <<0, 1>>
            /\ irep' = 0
            /\ pc' = "for_rep"
            /\ attempts' = (<<isize, mi, idtype>> :>
                              (IF <<isize, mi, idtype>> \in DOMAIN attempts
                               THEN attempts[<<isize, mi, idtype>>] + 1 ELSE 1))
                           @@ attempts
            /\ trace' = [timed |-> <<>>, reps |-> <<>>]
            /\ used' = [used EXCEPT !.constructed = 0, !.forward = 0, !.profiled = <<>>]
            /\ steps' = <<>>
       ELSE /\ pc' = "append"
            /\ UNCHANGED <<dtype_str, trialv, irep, attempts, trace, used, steps>>
    /\ UNCHANGED <<framesv, cfgv, plotv, tablev, selv, sizev, modelloopv, idtype, device_start_rep_used,
                   instv, estv, redv, outcomes, groups, raised, bodies, log>>

(***************************************************************************)
(* One repetition (lines 261-292).  A statement that can raise has two     *)
(* outcomes: it returns, or control passes to the except clause.           *)
(***************************************************************************)
(* one repetition more than the loop header says *)
RepetitionsOneMore(num_trials) == num_trials + 2

(* line 261: range(args.num_trials + 1) *)
Repetitions(num_trials) == num_trials + 1

(* line 261: for irep in range(args.num_trials + 1) *)
ForRep ==
    /\ pc = "for_rep"
    /\ pc' = IF irep < Repetitions(args.num_trials) THEN "empty_cache" ELSE "flops_get_model"
    /\ steps' = <<>>
    /\ UNCHANGED <<framesv, cfgv, plotv, tablev, selv, sizev, modelloopv, dtypev, trialv, repv,
                   instv, estv, redv, attempts, trace, outcomes, groups, raised, bodies, log, used>>

(* the snapshot taken right after the cache clear, the sleep left out *)
StepAfterNoSleep(step) ==
    CASE step = "empty_cache" -> "pre_snapshot"
      [] step = "sleep" -> "pre_snapshot"
      [] step = "pre_snapshot" -> "get_model"

(* line 262-267: the statements of a repetition up to the construction follow *)
(* one another: empty_cache(), sleep(), the snapshot, get_model()             *)
StepAfter(step) ==
    CASE step = "empty_cache" -> "sleep"
      [] step = "sleep" -> "pre_snapshot"
      [] step = "pre_snapshot" -> "get_model"

(* line 262: torch.cuda.empty_cache() *)
EmptyCache ==
    /\ pc = "empty_cache"
    /\ pc' = StepAfter("empty_cache")
    /\ steps' = Append(steps, "empty_cache")
    /\ UNCHANGED <<framesv, cfgv, plotv, tablev, selv, sizev, modelloopv, dtypev, trialv, repv,
                   instv, estv, redv, attempts, trace, outcomes, groups, raised, bodies, log, used>>

(* line 263: time.sleep(args.sleep_interval) *)
Sleep ==
    /\ pc = "sleep"
    /\ pc' = StepAfter("sleep")
    /\ steps' = Append(steps, "sleep")
    /\ UNCHANGED <<framesv, cfgv, plotv, tablev, selv, sizev, modelloopv, dtypev, trialv, repv,
                   instv, estv, redv, attempts, trace, outcomes, groups, raised, bodies, log, used>>

(* line 264-266 *)
PreSnapshot ==
    /\ pc = "pre_snapshot"
    /\ pc' = StepAfter("pre_snapshot")
    /\ IF ProbePresent
       THEN /\ device_start_rep_used' = Reading(MemoryReadings, CallKey + 1)
            /\ steps' = Append(steps, "pre_snapshot")
       ELSE UNCHANGED <<device_start_rep_used, steps>>
    /\ UNCHANGED <<framesv, cfgv, plotv, tablev, selv, sizev, modelloopv, dtypev, trialv, irep,
                   instv, estv, redv, attempts, trace, outcomes, groups, raised, bodies, log, used>>

(* ptlflow.get_model(mname, args=model_args).eval(): a new module, on the CPU *)
NewModel(name, rep) ==
    [name |-> name, device |-> "cpu", dtype |-> "fp32",
     built |-> <<isize, mi, idtype, rep>>]

(* model.cuda() and, for fp16, model.half(), when CUDA is available *)
OnDevice(m, dt) ==
    IF env.cuda
    THEN [m EXCEPT !.device = "cuda", !.dtype = IF dt = "fp16" THEN "fp16" ELSE @]
    ELSE m

(* the instance the variable referred to before, kept alive *)
StillHeld(res, old) == res

(* line 267 and 294: model = ...: the instance referred to before is dropped *)
Replaced(res, old) == res \ {old.built}

(* line 270 and 308: an instance that was moved to the device is resident *)
Placed(res, m) == IF m.device = "cuda" THEN res \cup {m.built} ELSE res

(* line 267-268 *)
GetModel ==
    /\ pc = "get_model"
    /\ \/ /\ model' = NewModel(mname, irep)
          /\ resident' = Replaced(resident, model)
          /\ used' = [used EXCEPT !.constructed = @ + 1, !.any_constructed = TRUE]
          /\ steps' = Append(steps, "get_model")
          /\ pc' = "to_device"
       \/ /\ pc' = "except"
          /\ UNCHANGED <<model, resident, used, steps>>
    /\ UNCHANGED <<framesv, cfgv, plotv, tablev, selv, sizev, modelloopv, dtypev, trialv, repv,
                   model_params, estv, redv, attempts, trace, outcomes, groups, raised, bodies, log>>

(* line 269-273, and line 432-433 on entering estimate_inference_time *)
ToDevice ==
    /\ pc = "to_device"
    /\ \/ /\ model' = OnDevice(model, dtype_str)
          /\ resident' = Placed(resident, model')
          /\ model_params' = CountParameters(model.name)
          /\ used' = [used EXCEPT !.counted = model.built]
          /\ i' = 0
          /\ time_vals' = <<>>
          /\ timer' = <<0, 1>>
          /\ pc' = "estimate"
       \/ /\ env.cuda
          /\ pc' = "except"
          /\ UNCHANGED <<instv, estv, used>>
    /\ UNCHANGED <<framesv, cfgv, plotv, tablev, selv, sizev, modelloopv, dtypev, trialv, repv,
                   redv, attempts, outcomes, groups, raised, bodies, trace, steps, log>>

(* Timer.reset(); Timer.tic(); ...; Timer.toc(): the total after one timed call *)
TimedTotal(total, elapsed) == RAdd(<<0, 1>>, elapsed)

(* the first call timed like the others *)
TimedAlways(k) == TRUE

(* line 448 and 453: if i > 0 *)
Timed(k) == k > 0

(* the wall-clock time the k-th forward call of the repetition takes *)
Elapsed(k) == Reading(TimerReadings, CallKey + k)

(* line 434-455: one pass of the loop of estimate_inference_time *)
Forward ==
    /\ pc = "estimate"
    /\ i < args.num_samples + 1
    /\ \/ /\ IF Timed(i)
             THEN /\ timer' = TimedTotal(timer, Elapsed(i))
                  /\ time_vals' = Append(time_vals, RDivInt(timer', args.batch_size))
                  /\ trace' = [trace EXCEPT !.timed =
                                  Append(@, [irep |-> irep, i |-> i, elapsed |-> Elapsed(i),
                                             sample |-> RDivInt(timer', args.batch_size)])]
             ELSE UNCHANGED <<timer, time_vals, trace>>
          /\ i' = i + 1
          /\ used' = [used EXCEPT !.forward = @ + 1, !.any_forward = TRUE]
          /\ pc' = "estimate"
       \/ /\ pc' = "except"
          /\ used' = [used EXCEPT !.forward = @ + 1, !.any_forward = TRUE]
          /\ UNCHANGED <<estv, trace>>
    /\ UNCHANGED <<framesv, cfgv, plotv, tablev, selv, sizev, modelloopv, dtypev, trialv, repv,
                   instv, redv, attempts, outcomes, groups, raised, bodies, steps, log>>

(* the warm-up repetition kept too *)
RetainedAlways(rep) == TRUE

(* line 277 and 283: if irep > 0 *)
Retained(rep) == rep > 0

(* line 456 and 274-278: return time_vals; if irep > 0: all_times.extend(...) *)
EstimateReturn ==
    /\ pc = "estimate"
    /\ i = args.num_samples + 1
    /\ all_times' = IF Retained(irep) THEN all_times \o time_vals ELSE all_times
    /\ steps' = Append(steps, "estimate")
    /\ pc' = "post_snapshot"
    /\ UNCHANGED <<framesv, cfgv, plotv, tablev, selv, sizev, modelloopv, dtypev, all_memories,
                   first_memory_used, repv, instv, estv, redv, attempts, trace, outcomes,
                   groups, raised, bodies, log, used>>

(* line 282: model_memory_used *)
MemoryDelta(after, start, initial) == after - start

(* the first-repetition value taken against the repetition's own snapshot *)
FirstDeltaFromStart(after, start, initial) == after - start

(* line 288-290: first_memory_used *)
FirstDelta(after, start, initial) == after - initial

(* line 280-290 *)
PostSnapshot ==
    /\ pc = "post_snapshot"
    /\ IF env.device_handle # None
       THEN IF ~env.pynvml
            THEN /\ pc' = "except"
                 /\ UNCHANGED <<trialv, steps, trace>>
            ELSE LET after == Reading(MemoryReadings, CallKey + 2)
                     model_memory_used ==
                         MemoryDelta(after, device_start_rep_used, device_initial_used)
                 IN /\ IF Retained(irep)
                       THEN /\ all_memories' = all_memories \o
                                   Repeat(<<model_memory_used, 1>>, args.num_samples)
                            /\ UNCHANGED first_memory_used
                       ELSE /\ first_memory_used' =
                                   <<FirstDelta(after, device_start_rep_used,
                                                device_initial_used), 1>>
                            /\ UNCHANGED all_memories
                    /\ trace' = [trace EXCEPT !.reps =
                                    Append(@, [irep |-> irep, before |-> device_start_rep_used,
                                               after |-> after])]
                    /\ steps' = Append(steps, "post_snapshot")
                    /\ pc' = "release"
                    /\ UNCHANGED all_times
       ELSE /\ pc' = "release"
            /\ UNCHANGED <<trialv, steps, trace>>
    /\ UNCHANGED <<framesv, cfgv, plotv, tablev, selv, sizev, modelloopv, dtypev, repv,
                   instv, estv, redv, attempts, outcomes, groups, raised, bodies, log, used>>

(* the model moved to the host and still referenced *)
KeptOnCpu(m) == [m EXCEPT !.device = "cpu"]

(* line 291-292: model = model.cpu(); model = None *)
Released(m) == NoModel

(* line 291-292 and the loop increment of line 261 *)
Release ==
    /\ pc = "release"
    /\ model' = Released(model)
    /\ resident' = resident \ {model.built}
    /\ irep' = irep + 1
    /\ steps' = Append(steps, "release")
    /\ pc' = "for_rep"
    /\ UNCHANGED <<framesv, cfgv, plotv, tablev, selv, sizev, modelloopv, dtypev, trialv,
                   device_start_rep_used, model_params, estv, redv, attempts, trace, outcomes,
                   groups, raised, bodies, log, used>>

(***************************************************************************)
(* The FLOP count, the reduction and the cells of the row (lines 294-376). *)
(***************************************************************************)
(* line 294-295 *)
FlopsGetModel ==
    /\ pc = "flops_get_model"
    /\ \/ /\ model' = NewModel(mname, args.num_trials + 1)
          /\ resident' = Replaced(resident, model)
          /\ used' = [used EXCEPT !.constructed = @ + 1, !.any_constructed = TRUE]
          /\ pc' = "flops_to_device"
       \/ /\ pc' = "except"
          /\ UNCHANGED <<model, resident, used>>
    /\ UNCHANGED <<framesv, cfgv, plotv, tablev, selv, sizev, modelloopv, dtypev, trialv, repv,
                   model_params, estv, redv, attempts, trace, outcomes, groups, raised, bodies, steps, log>>

(* line 297-312 *)
FlopsToDevice ==
    /\ pc = "flops_to_device"
    /\ \/ /\ model' = OnDevice(model, dtype_str)
          /\ resident' = Placed(resident, model')
          /\ pc' = "count_flops"
       \/ /\ env.cuda
          /\ pc' = "except"
          /\ UNCHANGED <<model, resident>>
    /\ UNCHANGED <<framesv, cfgv, plotv, tablev, selv, sizev, modelloopv, dtypev, trialv, repv,
                   model_params, estv, redv, histvars>>

(* the profiled input sized like the timed ones *)
FlopBatchConfigured(bs) == bs

(* line 298-299: torch.rand(1, 2, 3, ...) *)
FlopBatch(bs) == 1

(* line 314 and count_flops (395-408): one model(inputs) call under the profiler *)
CountFlops ==
    /\ pc = "count_flops"
    /\ used' = [used EXCEPT !.any_forward = TRUE,
                            !.profiled = Append(@, [batch |-> FlopBatch(args.batch_size),
                                                    built |-> model.built,
                                                    reps_done |-> irep])]
    /\ \/ /\ flops' = ProfiledFlops(model.name, input_size[1], input_size[2])
          /\ pc' = "reduce"
       \/ /\ pc' = "except"
          /\ UNCHANGED flops
    /\ UNCHANGED <<framesv, cfgv, plotv, tablev, selv, sizev, modelloopv, dtypev, trialv, repv,
                   instv, estv, final_times, final_memories, attempts, trace, outcomes,
                   groups, raised, bodies, steps, log>>

(* line 316-335 *)
Reduce ==
    /\ pc = "reduce"
    /\ all_times' = SortAsc(all_times)
    /\ IF StatsRaise(all_times')
       THEN /\ pc' = "except"
            /\ UNCHANGED <<all_memories, final_times, final_memories>>
       ELSE /\ final_times' = final_times_of(all_times')
            /\ all_memories' = SortAsc(MemoriesOrZero(all_memories))
            /\ IF StatsRaise(all_memories')
               THEN /\ pc' = "except"
                    /\ UNCHANGED final_memories
               ELSE /\ final_memories' = final_memories_of(all_memories', first_memory_used)
                    /\ pc' = "write_cells"
    /\ UNCHANGED <<framesv, cfgv, plotv, tablev, selv, sizev, modelloopv, dtypev, first_memory_used,
                   repv, instv, estv, flops, histvars>>

(* line 338-345 *)
CommonValues ==
    <<mname, Rat(model_params, ParamsUnit), Rat(flops, FlopsUnit),
      <<input_size[1], 1>>, <<input_size[2], 1>>, <<input_size[1] * input_size[2], 1>> >>

(* line 353-356 *)
TrialValues(times, memories) ==
    <<RMulInt(times[args.final_speed_mode], MsPerSecond),
      RDivInt(memories[args.final_memory_mode], BytesPerGiB)>>

(* the descriptive cells written by every successful trial *)
WritesCommonAlways(dict) == TRUE

(* line 337: if len(new_df_dict) == 0 *)
WritesCommon(dict) == DOMAIN dict = {}

(* line 337-369 *)
WriteCells ==
    /\ pc = "write_cells"
    /\ LET d1 == IF WritesCommon(new_df_dict)
                 THEN DictUpdate(new_df_dict,
                                 ZipDict(SubSeq(columns, 1, NUM_COMMON_COLUMNS),
                                         CommonValues))
                 ELSE new_df_dict
           values == TrialValues(final_times, final_memories)
       IN /\ new_df_dict' = DictUpdate(d1, ZipDict(DtypeColumns(columns, idtype), values))
          /\ outcomes' = Append(outcomes, [ok |-> TRUE, dtype |-> dtype_str,
                                           time |-> values[1], memory |-> values[2],
                                           wrote_common |-> WritesCommon(new_df_dict),
                                           counted |-> used.counted,
                                           profiled |-> used.profiled[1].built])
    /\ idtype' = idtype + 1
    /\ pc' = "for_dtype"
    /\ UNCHANGED <<framesv, cfgv, plotv, tablev, selv, sizev, mi, mname, dtype_str, trialv, repv,
                   instv, estv, redv, attempts, trace, groups, raised, bodies, steps, log, used>>

(* the handler leaving the precision loop instead *)
AbortAfterExcept(k) == Len(args.datatypes)

(* line 370-376: the handler only logs, so the precision loop goes on *)
AfterExcept(k) == k + 1

(* line 370-376: except Exception: logger.warning(...) *)
Except ==
    /\ pc = "except"
    /\ outcomes' = Append(outcomes, [ok |-> FALSE, dtype |-> dtype_str,
                                     time |-> NaN, memory |-> NaN,
                                     wrote_common |-> FALSE,
                                     counted |-> <<>>, profiled |-> <<>>])
    /\ raised' = raised \cup {<<isize, mi, idtype>>}
    /\ idtype' = AfterExcept(idtype)
    /\ pc' = "for_dtype"
    /\ UNCHANGED <<framesv, cfgv, plotv, tablev, selv, sizev, modelloopv, dtype_str, trialv, repv,
                   instv, estv, redv, attempts, trace, groups, bodies, steps, log, used>>

(***************************************************************************)
(* The row and the reporting (lines 378-392).                              *)
(***************************************************************************)
(* the row appended without the test *)
RowAlways(dict) == TRUE

(* line 378: if len(new_df_dict) > 0 *)
RowReady(dict) == DOMAIN dict # {}

(* the new row put first *)
ConcatFront(table, row) == <<row>> \o table

(* line 380: pd.concat([df, new_df], ignore_index=True) *)
Concat(table, row) == Append(table, row)

(* line 378-381 *)
AppendRow ==
    /\ pc = "append"
    /\ IF RowReady(new_df_dict)
       THEN /\ \E new_df \in {RowOf(columns, new_df_dict)} :
                  \E joined \in {Concat(df, new_df)} : df' = RoundTable(joined)
            /\ pc' = "to_csv"
            /\ UNCHANGED mi
       ELSE /\ mi' = mi + 1
            /\ pc' = "for_model"
            /\ UNCHANGED df
    /\ bodies' = Append(bodies, [name |-> mname,
                                 ok |-> \E k \in DOMAIN outcomes : outcomes[k].ok])
    /\ UNCHANGED <<framesv, cfgv, plotv, columns, files, wpos, selv, sizev, mname, new_df_dict, dtypev,
                   trialv, repv, instv, estv, redv, attempts, outcomes, groups, raised,
                   trace, steps, log, used>>

(* f"model_benchmark-{mname}.csv" *)
CsvName(name) == <<"model_benchmark", name>>

(* only the rows of the model that names the file *)
CsvRowsOfModel(table, name) == SelectSeq(table, LAMBDA r : r["Model"] = name)

(* only the row just appended *)
CsvRowsLast(table, name) == <<table[Len(table)]>>

(* line 382: what df.to_csv serialises is the whole of df *)
CsvRows(table, name) == table

(* line 382, df.to_csv(path): the file is opened for writing, which empties it *)
ToCsvOpen ==
    /\ pc = "to_csv"
    /\ files' = (CsvName(mname) :> <<>>) @@ files
    /\ wpos' = 0
    /\ pc' = "to_csv_rows"
    /\ UNCHANGED <<framesv, cfgv, plotv, columns, df, selv, sizev, modelloopv, dtypev, trialv, repv,
                   instv, estv, redv, histvars>>

(* line 382, df.to_csv(path): the rows of df are written one after the other *)
ToCsvRow ==
    /\ pc = "to_csv_rows"
    /\ wpos < Len(CsvRows(df, mname))
    /\ files' = [files EXCEPT ![CsvName(mname)] = Append(@, CsvRows(df, mname)[wpos + 1])]
    /\ wpos' = wpos + 1
    /\ UNCHANGED <<framesv, cfgv, plotv, pc, columns, df, selv, sizev, modelloopv, dtypev, trialv, repv,
                   instv, estv, redv, histvars>>

(* line 382, df.to_csv(path) returns *)
ToCsvClose ==
    /\ pc = "to_csv_rows"
    /\ wpos = Len(CsvRows(df, mname))
    /\ log' = Append(log, <<"to_csv", mname, Len(df)>>)
    /\ pc' = "save_plot"
    /\ UNCHANGED <<framesv, cfgv, plotv, tablev, selv, sizev, modelloopv, dtypev, trialv, repv,
                   instv, estv, redv, attempts, trace, outcomes, groups, raised, bodies, steps, used>>

(***************************************************************************)
(* save_plot (lines 459-531), called by benchmark() and by the entry point. *)
(***************************************************************************)
(* the saved tables a csv_path can name; any other path names no file *)
SavedPaths == {"saved/both.csv", "saved/fp32.csv"}

SavedTable(path) ==
    IF path = "saved/fp32.csv"
    THEN [columns |-> df_columns(<<"fp32">>),
          rows |-> << ("Model" :> "fastflownet" @@ "Params" :> <<683, 500>> @@
                       "FLOPs" :> <<3, 1000>> @@ "InputH" :> <<2, 1>> @@
                       "InputW" :> <<3, 1>> @@ "InputPx" :> <<6, 1>> @@
                       "Time(ms)-fp32" :> <<2, 1>> @@ "Memory(GB)-fp32" :> <<1, 16>>) >>]
    ELSE [columns |-> df_columns(<<"fp16", "fp32">>),
          rows |-> << ("Model" :> "fastflownet" @@ "Params" :> <<683, 500>> @@
                       "FLOPs" :> <<3, 1000>> @@ "InputH" :> <<2, 1>> @@
                       "InputW" :> <<3, 1>> @@ "InputPx" :> <<6, 1>> @@
                       "Time(ms)-fp16" :> NaN @@ "Memory(GB)-fp16" :> NaN @@
                       "Time(ms)-fp32" :> <<2, 1>> @@ "Memory(GB)-fp32" :> <<1, 16>>),
                      ("Model" :> "gmflownet" @@ "Params" :> <<4673, 500>> @@
                       "FLOPs" :> <<9, 1000>> @@ "InputH" :> <<2, 1>> @@
                       "InputW" :> <<3, 1>> @@ "InputPx" :> <<6, 1>> @@
                       "Time(ms)-fp16" :> <<3, 1>> @@ "Memory(GB)-fp16" :> <<1, 32>> @@
                       "Time(ms)-fp32" :> <<1, 16>> @@ "Memory(GB)-fp32" :> <<1, 16>>) >>]

(* Path(csv_path).stem *)
Stem(path) ==
    CASE path = "saved/both.csv" -> "both"
      [] path = "saved/fp32.csv" -> "fp32"
      [] OTHER -> "missing"

(* the model_name argument of save_plot: mname (line 385), the stem (line 595) *)
PlotName == IF args.csv_path = None THEN mname ELSE Stem(args.csv_path)

(* TABLE_KEYS_LEGENDS[key] *)
KeyLegend(key) == TABLE_LEGENDS[CHOOSE k \in DOMAIN TABLE_KEYS : TABLE_KEYS[k] = key]

(* line 496-501: the legend, with f"-{datatype}" for memory and time *)
AxisLegend(key, datatype) ==
    IF key = "time" THEN TimeCol(datatype)
    ELSE IF key = "memory" THEN MemoryCol(datatype)
    ELSE KeyLegend(key)

(* f"{xlegend}(Log10)" *)
Log10Col(legend) ==
    CASE legend = "Params" -> "Params(Log10)"
      [] legend = "FLOPs" -> "FLOPs(Log10)"
      [] legend = "InputH" -> "InputH(Log10)"
      [] legend = "InputW" -> "InputW(Log10)"
      [] legend = "InputPx" -> "InputPx(Log10)"
      [] legend = "Time(ms)-fp16" -> "Time(ms)-fp16(Log10)"
      [] legend = "Time(ms)-fp32" -> "Time(ms)-fp32(Log10)"
      [] legend = "Memory(GB)-fp16" -> "Memory(GB)-fp16(Log10)"
      [] legend = "Memory(GB)-fp32" -> "Memory(GB)-fp32(Log10)"

(* np.log10 of a cell, kept symbolic; of a missing cell it is missing *)
Log10(v) == IF v = NaN THEN NaN ELSE <<"log10", v[1], v[2]>>

(* line 488-491: the three asserts *)
AxesOK(axes) ==
    /\ Len(axes) = 2
    /\ axes[1] \in Range(TABLE_KEYS)
    /\ axes[2] \in Range(TABLE_KEYS)

(* a DataFrame's rows with their index labels 0, 1, ... *)
Indexed(table) == [k \in DOMAIN table |-> [index |-> k - 1, cells |-> table[k]]]

(* a cell that is missing; the Model cell is a string and never is *)
IsNa(c, v) == c # "Model" /\ v = NaN

(* line 494: df_tmp.dropna(): the rows without a missing cell in any column *)
DropNa(rows) ==
    SelectSeq(rows, LAMBDA r : \A c \in DOMAIN r.cells : ~IsNa(c, r.cells[c]))

(* df_tmp[log10_col] = np.log10(df[legend]): assigned by index label *)
WithLog(tmp, table, legend) ==
    [k \in DOMAIN tmp |->
        [tmp[k] EXCEPT !.cells =
            (Log10Col(legend) :> Log10(table[tmp[k].index + 1][legend])) @@ @]]

(* the derived columns assigned to the table that was passed in *)
LogTargetDf == "df"

(* line 505 and 508: the derived columns are assigned to df_tmp *)
LogTarget == "df_tmp"

(* the pc and the model-loop position after save_plot returns to its caller *)
PlotReturn ==
    IF args.csv_path = None
    THEN pc' = "for_model" /\ mi' = mi + 1
    ELSE pc' = "main_print" /\ UNCHANGED mi

(* line 383-391 (or 593-601): the call of save_plot, and lines 487-491 *)
SavePlot ==
    /\ pc = "save_plot"
    /\ log' = Append(log, <<"save_plot", PlotName, Len(df)>>)
    /\ IF args.plot_axes = NoList
       THEN PlotReturn
       ELSE /\ pc' = IF AxesOK(args.plot_axes) THEN "plot_dropna" ELSE "plot_raised"
            /\ UNCHANGED mi
    /\ UNCHANGED <<framesv, cfgv, plotv, tablev, selv, sizev, mname, new_df_dict, dtypev, trialv, repv,
                   instv, estv, redv, attempts, trace, outcomes, groups, raised, bodies, steps, used>>

(* line 493-494: df_tmp = df.copy(); df_tmp = df_tmp.dropna() *)
PlotDropna ==
    /\ pc = "plot_dropna"
    /\ df_tmp' = DropNa(Indexed(df))
    /\ pc' = "plot_log"
    /\ UNCHANGED <<framesv, cfgv, plots, tablev, selv, sizev, modelloopv, dtypev, trialv, repv,
                   instv, estv, redv, histvars>>

(* line 496-508: the legends and the derived columns; df[legend] of a column *)
(* the table does not have raises KeyError                                   *)
PlotLog ==
    /\ pc = "plot_log"
    /\ LET x == AxisLegend(args.plot_axes[1], args.datatypes[1])
           y == AxisLegend(args.plot_axes[2], args.datatypes[1])
           xok == ~args.plot_log_x \/ x \in Range(columns)
           yok == ~args.plot_log_y \/ y \in Range(columns)
           t1 == IF args.plot_log_x /\ xok THEN WithLog(df_tmp, df, x) ELSE df_tmp
           t2 == IF args.plot_log_y /\ yok THEN WithLog(t1, df, y) ELSE t1
           d1 == IF args.plot_log_x /\ xok
                 THEN [k \in DOMAIN df |-> (Log10Col(x) :> Log10(df[k][x])) @@ df[k]]
                 ELSE df
           d2 == IF args.plot_log_y /\ yok
                 THEN [k \in DOMAIN d1 |-> (Log10Col(y) :> Log10(d1[k][y])) @@ d1[k]]
                 ELSE d1
       IN /\ IF LogTarget = "df_tmp"
             THEN df_tmp' = (IF xok THEN t2 ELSE df_tmp) /\ UNCHANGED df
             ELSE df' = (IF xok THEN d2 ELSE df) /\ UNCHANGED df_tmp
          /\ pc' = IF xok /\ yok THEN "plot_scatter" ELSE "plot_raised"
    /\ UNCHANGED <<framesv, cfgv, plots, columns, files, wpos, selv, sizev, modelloopv, dtypev,
                   trialv, repv, instv, estv, redv, histvars>>

(* line 510-531: px.scatter(df_tmp, x=xlegend, y=ylegend, ...), which raises *)
(* for a column df_tmp does not have, and fig.write_html(out_path)           *)
PlotScatter ==
    /\ pc = "plot_scatter"
    /\ LET x == AxisLegend(args.plot_axes[1], args.datatypes[1])
           y == AxisLegend(args.plot_axes[2], args.datatypes[1])
       IN IF x \in Range(columns) /\ y \in Range(columns)
          THEN /\ plots' = Append(plots,
                              [name |-> <<"benchmark_plot", PlotName,
                                          args.plot_axes[1], args.plot_axes[2]>>,
                               x |-> x, y |-> y, rows |-> df_tmp])
               /\ PlotReturn
          ELSE /\ pc' = "plot_raised"
               /\ UNCHANGED <<plots, mi>>
    /\ UNCHANGED <<framesv, cfgv, df_tmp, tablev, selv, sizev, mname, new_df_dict, dtypev, trialv,
                   repv, instv, estv, redv, histvars>>

(* line 392: return df *)
Return ==
    /\ pc = "return"
    /\ pc' = "done"
    /\ UNCHANGED <<framesv, cfgv, plotv, tablev, selv, sizev, modelloopv, dtypev, trialv, repv,
                   instv, estv, redv, histvars>>

Next ==
    \/ Setup \/ SelectModels \/ CheckExclude \/ CheckInputSize \/ InitialSnapshot
    \/ ForInputSize \/ ForModel \/ ForDtype \/ ForRep
    \/ EmptyCache \/ Sleep \/ PreSnapshot \/ GetModel \/ ToDevice
    \/ Forward \/ EstimateReturn \/ PostSnapshot \/ Release
    \/ FlopsGetModel \/ FlopsToDevice \/ CountFlops \/ Reduce \/ WriteCells \/ Except
    \/ AppendRow \/ ToCsvOpen \/ ToCsvRow \/ ToCsvClose \/ SavePlot \/ Return

Spec == Init /\ [][Next]_vars

(* where the run stands: every step of the sweep moves one of these *)
progress == <<pc, isize, mi, idtype, irep, i, wpos>>

(* every statement that is reached runs to its end: it returns or it raises *)
FairSpec == InitOf(TerminationScenarios) /\ [][Next]_vars /\ WF_progress(Next)

(***************************************************************************)
(* The entry point (lines 544-603): parse, probe, then the sweep or the    *)
(* plot of a saved table.                                                  *)
(***************************************************************************)
PlotAxes == {NoList, <<"flops", "time">>, <<"time", "memory">>, <<"time", "time">>}

(* line 576-584: device_handle is a handle exactly when pynvml was imported *)
MainEnvs ==
    {[device_handle |-> IF nv THEN "handle" ELSE None, pynvml |-> nv, cuda |-> TRUE,
      seed |-> 0] : nv \in BOOLEAN}

(* --csv_path given: only the plot *)
ReplotScenarios ==
    {[args |-> [DefaultArgs EXCEPT !.csv_path = p, !.plot_axes = ax, !.plot_log_x = lx,
                                   !.plot_log_y = ly, !.datatypes = dts],
      env |-> e] :
        p \in SavedPaths \cup {"saved/missing.csv"}, ax \in PlotAxes,
        lx \in BOOLEAN, ly \in BOOLEAN,
        dts \in {<<"fp32">>, <<"fp16", "fp32">>}, e \in MainEnvs}

(* no --csv_path: the sweep, of one model at two precisions *)
SweepAndPlotScenarios ==
    {[args |-> [DefaultArgs EXCEPT !.plot_axes = ax, !.plot_log_x = lx, !.plot_log_y = ly,
                                   !.datatypes = dts, !.input_size = sz],
      env |-> e] :
        ax \in PlotAxes, lx \in BOOLEAN, ly \in BOOLEAN,
        dts \in {<<"fp16", "fp32">>}, sz \in {<<2, 3>>, <<2, 3, 4, 5>>}, e \in MainEnvs}

MainScenarios == ReplotScenarios \cup SweepAndPlotScenarios

InitMain ==
    /\ \E sc \in MainScenarios : args = sc.args /\ env = sc.env
    /\ pc = "main"
    /\ columns = <<>> /\ df = <<>> /\ files = <<>> /\ wpos = 0
    /\ model_names = <<>> /\ exclude = <<>> /\ device_initial_used = Unbound
    /\ isize = 0 /\ input_size = <<>>
    /\ mi = 0 /\ mname = None /\ new_df_dict = <<>>
    /\ idtype = 0 /\ dtype_str = None
    /\ all_times = <<>> /\ all_memories = <<>> /\ first_memory_used = <<0, 1>>
    /\ irep = 0 /\ device_start_rep_used = Unbound
    /\ model = NoModel /\ model_params = Unbound /\ resident = {}
    /\ i = 0 /\ time_vals = <<>> /\ timer = <<0, 1>>
    /\ flops = Unbound /\ final_times = <<>> /\ final_memories = <<>>
    /\ df_tmp = <<>> /\ plots = <<>>
    /\ attempts = <<>> /\ outcomes = <<>> /\ groups = <<>> /\ steps = <<>>
    /\ raised = {} /\ bodies = <<>> /\ trace = [timed |-> <<>>, reps |-> <<>>]
    /\ log = <<>>
    /\ used = [constructed |-> 0, forward |-> 0, any_constructed |-> FALSE,
               any_forward |-> FALSE, profiled |-> <<>>, counted |-> <<>>]
    /\ scope = NoFrame /\ video = NoFrame

(* line 545-574: the parser and PTLFlowCLI(..., run=False), which yields cfg *)
MainParse ==
    /\ pc = "main"
    /\ pc' = "main_device"
    /\ UNCHANGED <<framesv, cfgv, plotv, tablev, selv, sizev, modelloopv, dtypev, trialv, repv,
                   instv, estv, redv, histvars>>

(* line 576-586: nvmlInit and the device handle, when pynvml was imported; cfg *)
MainDevice ==
    /\ pc = "main_device"
    /\ pc' = "main_dispatch"
    /\ UNCHANGED <<framesv, cfgv, plotv, tablev, selv, sizev, modelloopv, dtypev, trialv, repv,
                   instv, estv, redv, histvars>>

(* the sweep run whatever csv_path is *)
NeverReplot(path) == FALSE

(* line 588: if cfg.csv_path is None: ... else: *)
ReplotOnly(path) == path # None

(* line 588-601: benchmark(cfg, device_handle), or pd.read_csv(cfg.csv_path) *)
(* (which raises for a file that does not exist), mkdir and save_plot        *)
MainDispatch ==
    /\ pc = "main_dispatch"
    /\ IF ~ReplotOnly(args.csv_path)
       THEN pc' = "start" /\ UNCHANGED <<df, columns>>
       ELSE IF args.csv_path \in SavedPaths
       THEN /\ df' = SavedTable(args.csv_path).rows
            /\ columns' = SavedTable(args.csv_path).columns
            /\ pc' = "save_plot"
       ELSE pc' = "main_raised" /\ UNCHANGED <<df, columns>>
    /\ UNCHANGED <<framesv, cfgv, plotv, files, wpos, selv, sizev, modelloopv, dtypev, trialv, repv,
                   instv, estv, redv, histvars>>

(* line 602-603: the two prints, after benchmark() returned or the plot was made *)
MainPrint ==
    /\ pc \in {"done", "main_print"}
    /\ pc' = "exit"
    /\ UNCHANGED <<framesv, cfgv, plotv, tablev, selv, sizev, modelloopv, dtypev, trialv, repv,
                   instv, estv, redv, histvars>>

NextMain ==
    \/ MainParse \/ MainDevice \/ MainDispatch \/ MainPrint
    \/ PlotDropna \/ PlotLog \/ PlotScatter
    \/ Next

MainSpec == InitMain /\ [][NextMain]_vars

(***************************************************************************)
(* The reduction on its own: benchmark() at line 316 with sample lists of  *)
(* every length up to MaxLen, as left by num_trials = L repetitions of one *)
(* sample each.                                                            *)
(***************************************************************************)
GenTimes(L, a) == [k \in 1..L |-> Rat(((a * k + a * a) % 127) + 1, 16000)]
GenUsed(L, a) == [k \in 1..L |-> (((a * k + a) % 13) + 1) * 1048576]

InitReduce ==
    \E L \in 0..MaxLen, a \in 1..(MaxSeed + 1), probe \in BOOLEAN :
        /\ args = [DefaultArgs EXCEPT !.num_trials = L]
        /\ env = [DefaultEnv EXCEPT !.device_handle = IF probe THEN "handle" ELSE None]
        /\ pc = "reduce"
        /\ columns = df_columns(args.datatypes)
        /\ df = <<>> /\ files = <<>> /\ wpos = 0
        /\ df_tmp = <<>> /\ plots = <<>>
        /\ model_names = <<args.model>> /\ exclude = <<>>
        /\ device_initial_used = IF probe THEN 1048576 ELSE Unbound
        /\ isize = 0 /\ input_size = args.input_size
        /\ mi = 1 /\ mname = args.model /\ new_df_dict = <<>>
        /\ idtype = 0 /\ dtype_str = "fp32"
        /\ all_times = GenTimes(L, a)
        /\ all_memories = IF probe THEN [k \in 1..L |-> <<GenUsed(L, a)[k] - 1048576, 1>>]
                          ELSE <<>>
        /\ first_memory_used = IF probe THEN <<GenUsed(1, a)[1] - 1048576, 1>> ELSE <<0, 1>>
        /\ irep = L + 1
        /\ device_start_rep_used = IF probe THEN 1048576 ELSE Unbound
        /\ model = [name |-> args.model, device |-> "cuda", dtype |-> "fp32",
                    built |-> <<0, 1, 0, L + 1>>]
        /\ model_params = CountParameters(args.model)
        /\ resident = {<<0, 1, 0, L + 1>>}
        /\ i = 2 /\ time_vals = <<>> /\ timer = <<0, 1>>
        /\ flops = ProfiledFlops(args.model, args.input_size[1], args.input_size[2])
        /\ final_times = <<>> /\ final_memories = <<>>
        /\ attempts = (<<0, 1, 0>> :> 1) /\ outcomes = <<>>
        /\ groups = <<args.input_size>> /\ steps = <<>>
        /\ raised = {} /\ bodies = <<>>
        /\ trace = [timed |-> <<[irep |-> 0, i |-> 1,
                                  elapsed |-> RMulInt(GenTimes(1, a)[1], args.batch_size),
                                  sample |-> GenTimes(1, a)[1]]>> \o
                               [k \in 1..L |->
                                   [irep |-> k, i |-> 1,
                                    elapsed |-> RMulInt(GenTimes(L, a)[k], args.batch_size),
                                    sample |-> GenTimes(L, a)[k]]],
                    reps |-> IF probe
                             THEN <<[irep |-> 0, before |-> 1048576,
                                     after |-> GenUsed(1, a)[1]]>> \o
                                  [k \in 1..L |-> [irep |-> k, before |-> 1048576,
                                                   after |-> GenUsed(L, a)[k]]]
                             ELSE <<>>]
        /\ log = <<>>
        /\ used = [constructed |-> L + 2, forward |-> 2, any_constructed |-> TRUE,
                   any_forward |-> TRUE,
                   profiled |-> <<[batch |-> 1, built |-> <<0, 1, 0, L + 1>>,
                                   reps_done |-> L + 1]>>,
                   counted |-> <<0, 1, 0, L>>]
        /\ scope = NoFrame /\ video = NoFrame

NextReduce == Reduce \/ WriteCells \/ Except

ReduceSpec == InitReduce /\ [][NextReduce]_vars

(***************************************************************************)
(* The model methods checked on their own.  While one of them runs the     *)
(* benchmark is not running: its variables keep their idle values.         *)
(***************************************************************************)
benchv == <<progvars, histvars>>

NotRunning ==
    /\ args = DefaultArgs /\ env = DefaultEnv
    /\ pc = "idle"
    /\ columns = <<>> /\ df = <<>> /\ files = <<>> /\ wpos = 0
    /\ model_names = <<>> /\ exclude = <<>> /\ device_initial_used = Unbound
    /\ isize = 0 /\ input_size = <<>>
    /\ mi = 0 /\ mname = None /\ new_df_dict = <<>>
    /\ idtype = 0 /\ dtype_str = None
    /\ all_times = <<>> /\ all_memories = <<>> /\ first_memory_used = <<0, 1>>
    /\ irep = 0 /\ device_start_rep_used = Unbound
    /\ model = NoModel /\ model_params = Unbound /\ resident = {}
    /\ i = 0 /\ time_vals = <<>> /\ timer = <<0, 1>>
    /\ flops = Unbound /\ final_times = <<>> /\ final_memories = <<>>
    /\ df_tmp = <<>> /\ plots = <<>>
    /\ attempts = <<>> /\ outcomes = <<>> /\ groups = <<>> /\ steps = <<>>
    /\ raised = {} /\ bodies = <<>> /\ trace = [timed |-> <<>>, reps |-> <<>>]
    /\ log = <<>>
    /\ used = [constructed |-> 0, forward |-> 0, any_constructed |-> FALSE,
               any_forward |-> FALSE, profiled |-> <<>>, counted |-> <<>>]

(***************************************************************************)
(* ScopeFlow.forward (irr_pwc_v2.py, lines 143-296): the occlusion values  *)
(* of the pyramid loop.  A tensor is the term that computed it:            *)
(* <<operation, level, operands>>.                                         *)
(***************************************************************************)
MaxLevels == 4

Tensor(op, lvl, operands) == <<op, lvl, operands>>

(* the two input images, and the features of image k at a pyramid level *)
Image(k) == Tensor("image", k, <<>>)
Features(img, lvl) == Tensor("features", lvl, <<img>>)

(* line 455-477: _estimate_occ, the same networks on the forward and on the *)
(* backward inputs                                                         *)
EstimateOcc(x1, x2, occ_f, occ_b, lvl) ==
    <<Tensor("occ_context", lvl, <<x1, occ_f>>), Tensor("occ_context", lvl, <<x2, occ_b>>)>>

(* the helper returning the backward context value in both positions *)
RefineOccBackwardTwice(x1, x2, occ_cont_f, occ_cont_b, lvl) ==
    <<Tensor("refine_occ", lvl, <<occ_cont_f, x1>>), occ_cont_b,
      Tensor("refine_occ", lvl, <<occ_cont_b, x2>>), occ_cont_b>>

(* line 546-566: _refine_occ; return occ_f, occ_cont_f, occ_b, occ_cont_f *)
RefineOcc(x1, x2, occ_cont_f, occ_cont_b, lvl) ==
    <<Tensor("refine_occ", lvl, <<occ_cont_f, x1>>), occ_cont_f,
      Tensor("refine_occ", lvl, <<occ_cont_b, x2>>), occ_cont_f>>

(* line 143-178: the pyramids of the two images, the zero occlusion maps *)
InitScope ==
    /\ NotRunning
    /\ video = NoFrame
    /\ \E n \in 1..MaxLevels, out \in 0..MaxLevels, second \in {1, 2} :
          scope = [pc |-> "loop", l |-> 0, levels |-> n, output_level |-> out,
                   x1_raw |-> Image(1), x2_raw |-> Image(second),
                   occ_f |-> Tensor("zeros", 0, <<>>), occ_b |-> Tensor("zeros", 0, <<>>),
                   occ_cont_f |-> Tensor("unset", 0, <<>>),
                   occ_cont_b |-> Tensor("unset", 0, <<>>),
                   occs |-> <<>>, estimated |-> <<>>]

ScopeX1 == Features(scope.x1_raw, scope.l)
ScopeX2 == Features(scope.x2_raw, scope.l)

(* line 180-185 and _warp (389-400): the maps upsampled to the level's size *)
ScopeWarp ==
    /\ scope.pc = "loop"
    /\ scope.l < scope.levels
    /\ scope.l <= scope.output_level
    /\ scope' = [scope EXCEPT
                   !.occ_f = IF scope.l = 0 THEN @ ELSE Tensor("upsample", scope.l, <<@>>),
                   !.occ_b = IF scope.l = 0 THEN @ ELSE Tensor("upsample", scope.l, <<@>>),
                   !.pc = "estimate_occ"]
    /\ UNCHANGED <<benchv, video>>

(* line 202-205 *)
ScopeEstimateOcc ==
    /\ scope.pc = "estimate_occ"
    /\ LET r == EstimateOcc(ScopeX1, ScopeX2, scope.occ_f, scope.occ_b, scope.l)
       IN scope' = [scope EXCEPT !.occ_cont_f = r[1], !.occ_cont_b = r[2],
                                 !.estimated = Append(@, r),
                                 !.pc = "refine_occ"]
    /\ UNCHANGED <<benchv, video>>

(* line 241-250: occ_f, occ_cont_f, occ_b, occ_cont_f = self._refine_occ(...): *)
(* the targets are assigned from left to right                               *)
ScopeRefineOcc ==
    /\ scope.pc = "refine_occ"
    /\ LET r == RefineOcc(ScopeX1, ScopeX2, scope.occ_cont_f, scope.occ_cont_b, scope.l)
           a1 == [scope EXCEPT !.occ_f = r[1]]
           a2 == [a1 EXCEPT !.occ_cont_f = r[2]]
           a3 == [a2 EXCEPT !.occ_b = r[3]]
           a4 == [a3 EXCEPT !.occ_cont_f = r[4]]
       IN scope' = [a4 EXCEPT !.pc = "collect"]
    /\ UNCHANGED <<benchv, video>>

(* line 252-254: occs.append([occ_cont_f, occ_cont_b, occ_f, occ_b]) *)
ScopeCollect ==
    /\ scope.pc = "collect"
    /\ scope' = [scope EXCEPT
                   !.occs = Append(@, <<scope.occ_cont_f, scope.occ_cont_b,
                                        scope.occ_f, scope.occ_b>>),
                   !.l = @ + 1,
                   !.pc = "loop"]
    /\ UNCHANGED <<benchv, video>>

(* line 256-268: above the output level, occ_upsampling and occs.append([occ_f, occ_b]) *)
ScopeUpsample ==
    /\ scope.pc = "loop"
    /\ scope.l < scope.levels
    /\ scope.l > scope.output_level
    /\ LET f == Tensor("occ_upsampling", scope.l, <<scope.occ_f, ScopeX1>>)
           b == Tensor("occ_upsampling", scope.l, <<scope.occ_b, ScopeX2>>)
       IN scope' = [scope EXCEPT !.occ_f = f, !.occ_b = b,
                                 !.occs = Append(@, <<f, b>>),
                                 !.l = @ + 1]
    /\ UNCHANGED <<benchv, video>>

(* line 270-296 *)
ScopeReturn ==
    /\ scope.pc = "loop"
    /\ scope.l = scope.levels
    /\ scope' = [scope EXCEPT !.pc = "returned"]
    /\ UNCHANGED <<benchv, video>>

NextScope ==
    \/ ScopeWarp \/ ScopeEstimateOcc \/ ScopeRefineOcc \/ ScopeCollect
    \/ ScopeUpsample \/ ScopeReturn

ScopeSpec == InitScope /\ [][NextScope]_vars

(***************************************************************************)
(* VideoFlowMOF.forward (ptlflow/models/videoflow/videoflow_mof.py, lines  *)
(* 170-345): the frames repeated at both ends of the input are counted by  *)
(* their paths and trimmed, and one prediction is selected by pred_mid.    *)
(* A frame is the position it had in the input.                            *)
(***************************************************************************)
MaxFrames == 6
MaxPaths == 3

(* where Python puts a slice bound k of a list of n items *)
SliceBound(k, n) == IF k < 0 THEN (IF n + k < 0 THEN 0 ELSE n + k) ELSE Min(k, n)

(* seq[a:b] for any integers a and b *)
PySliceSigned(s, a, b) == SubSeq(s, SliceBound(a, Len(s)) + 1, SliceBound(b, Len(s)))

(* line 193: images[:, num_left_reps - 1 :] *)
TrimLeft(images, num_left_reps) == PySliceSigned(images, num_left_reps - 1, Len(images))

(* line 195: images[:, : images.shape[1] - num_right_reps] *)
TrimRight(images, num_right_reps) ==
    PySliceSigned(images, 0, Len(images) - num_right_reps)

(* line 324: forward_flow_up.reshape(B, N - 2, 2, H, W): one flow per inner *)
(* frame of the N frames, named by that frame; none when N < 3              *)
InnerFlows(images) == [k \in 1..(Len(images) - 2) |-> images[k + 1]]

(* line 320-322 *)
PredMid(N_orig, num_left_reps) ==
    ((N_orig - 2) \div 2) - (IF num_left_reps > 0 THEN num_left_reps - 1 ELSE 0)

(* line 174-175: a call with 3 to MaxFrames frames, with or without paths *)
InitVideo ==
    /\ NotRunning
    /\ scope = NoFrame
    /\ \E n \in 3..MaxFrames, meta \in BOOLEAN :
          \E p \in [1..n -> 1..MaxPaths] :
              video = [pc |-> "check", paths |-> p, meta |-> meta,
                       images |-> [k \in 1..n |-> k], N_orig |-> n,
                       num_left_reps |-> 0, num_right_reps |-> 0, i |-> 0,
                       N |-> 0, pred_mid |-> 0,
                       forward_flow_up |-> <<>>, backward_flow_up |-> <<>>]

(* line 177-183 *)
VideoCheck ==
    /\ video.pc = "check"
    /\ video' = IF Len(video.images) > 3 /\ video.meta
                THEN [video EXCEPT !.pc = "count_left", !.num_left_reps = 0, !.i = 1]
                ELSE [video EXCEPT !.pc = "shape", !.num_left_reps = 0]
    /\ UNCHANGED <<benchv, scope>>

(* line 184-188: while i < len(paths) and paths[0] == paths[i] *)
VideoCountLeft ==
    /\ video.pc = "count_left"
    /\ video' = IF video.i < Len(video.paths) /\ video.paths[1] = video.paths[video.i + 1]
                THEN [video EXCEPT !.num_left_reps = @ + 1, !.i = @ + 1]
                ELSE [video EXCEPT !.pc = "count_right", !.num_right_reps = 0,
                                   !.i = Len(video.paths) - 2]
    /\ UNCHANGED <<benchv, scope>>

(* line 189-191: while i >= 0 and paths[-1] == paths[i] *)
VideoCountRight ==
    /\ video.pc = "count_right"
    /\ video' = IF video.i >= 0 /\ video.paths[Len(video.paths)] = video.paths[video.i + 1]
                THEN [video EXCEPT !.num_right_reps = @ + 1, !.i = @ - 1]
                ELSE [video EXCEPT !.pc = "trim_left"]
    /\ UNCHANGED <<benchv, scope>>

(* line 192-193 *)
VideoTrimLeft ==
    /\ video.pc = "trim_left"
    /\ video' = [video EXCEPT
                   !.images = IF video.num_left_reps > 0
                              THEN TrimLeft(@, video.num_left_reps) ELSE @,
                   !.pc = "trim_right"]
    /\ UNCHANGED <<benchv, scope>>

(* line 194-195 *)
VideoTrimRight ==
    /\ video.pc = "trim_right"
    /\ video' = [video EXCEPT
                   !.images = IF video.num_right_reps > 0
                              THEN TrimRight(@, video.num_right_reps) ELSE @,
                   !.pc = "shape"]
    /\ UNCHANGED <<benchv, scope>>

(* line 207: B, N, _, H, W = images.shape *)
VideoShape ==
    /\ video.pc = "shape"
    /\ video' = [video EXCEPT !.N = Len(video.images), !.pc = "pred_mid"]
    /\ UNCHANGED <<benchv, scope>>

(* line 320-322 *)
VideoPredMid ==
    /\ video.pc = "pred_mid"
    /\ video' = [video EXCEPT !.pred_mid = PredMid(video.N_orig, video.num_left_reps),
                              !.pc = "select"]
    /\ UNCHANGED <<benchv, scope>>

(* line 324-329: [:, pred_mid : pred_mid + 1] of the forward and of the *)
(* backward flows                                                       *)
VideoSelect ==
    /\ video.pc = "select"
    /\ video' = [video EXCEPT
                   !.forward_flow_up =
                       PySliceSigned(InnerFlows(video.images), video.pred_mid,
                                     video.pred_mid + 1),
                   !.backward_flow_up =
                       PySliceSigned(InnerFlows(video.images), video.pred_mid,
                                     video.pred_mid + 1),
                   !.pc = "returned"]
    /\ UNCHANGED <<benchv, scope>>

NextVideo ==
    \/ VideoCheck \/ VideoCountLeft \/ VideoCountRight \/ VideoTrimLeft
    \/ VideoTrimRight \/ VideoShape \/ VideoPredMid \/ VideoSelect

VideoSpec == InitVideo /\ [][NextVideo]_vars

(***************************************************************************)
(* Properties.                                                             *)
(***************************************************************************)
Prelude == {"start", "select_models", "check_exclude", "check_input_size", "raised"}
Reporting == {"to_csv", "to_csv_rows", "save_plot"}

(* <<group, model position, precision position>> a precedes b in the sweep *)
Precedes(a, b) ==
    \/ a[1] < b[1]
    \/ a[1] = b[1] /\ a[2] < b[2]
    \/ a[1] = b[1] /\ a[2] = b[2] /\ a[3] < b[3]

(* where the loops stand: the loop variables that are current at pc *)
Position ==
    CASE pc \in {"for_isize", "return", "done"} -> <<isize, 0, 0>>
      [] pc = "for_model" -> <<isize, mi, 0>>
      [] OTHER -> <<isize, mi, idtype>>

(* every combination of the configuration whose model is not excluded *)
Combinations ==
    {<<g, m, d>> : g \in {k \in 0..(Len(args.input_size) - 1) : k % 2 = 0},
                   m \in {k \in DOMAIN model_names : model_names[k] \notin Range(exclude)},
                   d \in 0..(Len(args.datatypes) - 1)}

(* C1: an exception in a trial is caught and the sweep continues: no          *)
(* combination (group, model position, precision position) is tried twice,   *)
(* every combination before the current one has been tried whether or not    *)
(* earlier ones raised, and at the end every combination has been tried once. *)
C1_EveryCombinationOnce ==
    /\ \A c \in DOMAIN attempts : attempts[c] = 1
    /\ raised \subseteq DOMAIN attempts
    /\ pc \notin Prelude =>
          /\ DOMAIN attempts \subseteq Combinations
          /\ \A c \in Combinations :
                Precedes(c, Position) => c \in DOMAIN attempts
    /\ pc = "done" => DOMAIN attempts = Combinations

C1_Witness ==
    /\ pc = "done"
    /\ \E a \in raised, b \in DOMAIN attempts \ raised, c \in raised :
          Precedes(a, b) /\ Precedes(b, c)

NoDup(seq) == \A a, b \in DOMAIN seq : a # b => seq[a] # seq[b]

(* C2: with distinct precisions, the cells of the row under construction are  *)
(* exactly those of the trials that succeeded, each under its own precision's *)
(* two columns; a failed trial has neither cell; time and memory cells come   *)
(* in pairs; and the appended row holds the same cells, rounded.              *)
C2_FailedPrecisionLeavesOthers ==
    NoDup(args.datatypes) =>
       /\ \A k \in DOMAIN outcomes :
             LET d == outcomes[k].dtype
             IN IF outcomes[k].ok
                THEN /\ TimeCol(d) \in DOMAIN new_df_dict
                     /\ MemoryCol(d) \in DOMAIN new_df_dict
                     /\ new_df_dict[TimeCol(d)] = outcomes[k].time
                     /\ new_df_dict[MemoryCol(d)] = outcomes[k].memory
                ELSE /\ TimeCol(d) \notin DOMAIN new_df_dict
                     /\ MemoryCol(d) \notin DOMAIN new_df_dict
       /\ \A d \in Datatypes :
             TimeCol(d) \in DOMAIN new_df_dict <=> MemoryCol(d) \in DOMAIN new_df_dict
       /\ pc \in Reporting =>
             \A k \in DOMAIN outcomes :
                LET d == outcomes[k].dtype
                    row == df[Len(df)]
                IN /\ row[TimeCol(d)] = Round3(outcomes[k].time)
                   /\ row[MemoryCol(d)] = Round3(outcomes[k].memory)
                   /\ ~outcomes[k].ok => row[TimeCol(d)] = NaN /\ row[MemoryCol(d)] = NaN

C2_Witness ==
    /\ pc = "to_csv"
    /\ Len(outcomes) = 2
    /\ NoDup(args.datatypes)
    /\ ~outcomes[1].ok
    /\ outcomes[2].ok
    /\ df[Len(df)][TimeCol(outcomes[1].dtype)] = NaN
    /\ df[Len(df)][TimeCol(outcomes[2].dtype)] # NaN

OkBodies == SelectSeq(bodies, LAMBDA b : b.ok)

(* C3: the table has one row per finished (model, input size) of which a      *)
(* trial succeeded and none for the others; each such row was followed by     *)
(* one write of model_benchmark-<model>.csv and one save_plot call, and no    *)
(* other write or save_plot call was made.                                    *)
C3_RowPerSuccessfulBody ==
    /\ Len(df) = Len(OkBodies)
    /\ \A k \in DOMAIN df : df[k]["Model"] = OkBodies[k].name
    /\ \A f \in DOMAIN files : \E k \in DOMAIN OkBodies : f = CsvName(OkBodies[k].name)
    /\ Len(log) <= 2 * Len(df)
    /\ pc \notin Reporting =>
          /\ Len(log) = 2 * Len(df)
          /\ \A k \in DOMAIN df :
                /\ log[2 * k - 1] = <<"to_csv", OkBodies[k].name, k>>
                /\ log[2 * k] = <<"save_plot", OkBodies[k].name, k>>
                /\ CsvName(OkBodies[k].name) \in DOMAIN files

C3_Witness ==
    /\ pc = "done"
    /\ \E j, k \in DOMAIN bodies : j < k /\ ~bodies[j].ok /\ bodies[k].ok
    /\ \E j, k \in DOMAIN bodies : j < k /\ bodies[j].ok /\ ~bodies[k].ok

(* C4: outside a write in progress, the file named for the model of the last  *)
(* row holds the whole table, the rows of all models and input sizes; so at   *)
(* the return the file written last equals the returned table.                *)
C4_FileHoldsWholeTable ==
    /\ pc = "save_plot" => files[CsvName(mname)] = df
    /\ (pc \notin {"to_csv", "to_csv_rows"} /\ df # <<>>) =>
          files[CsvName(df[Len(df)]["Model"])] = df

C4_Witness ==
    /\ pc = "done"
    /\ Len(df) >= 3
    /\ df[1]["Model"] # df[Len(df)]["Model"]
    /\ df[1]["InputH"] # df[Len(df)]["InputH"]

(* rows of combinations finished before the one in progress *)
CompletedRows == IF pc \in {"to_csv", "to_csv_rows"} THEN Len(df) - 1 ELSE Len(df)

OnDisk(k) == \E f \in DOMAIN files : \E j \in DOMAIN files[f] : files[f][j] = df[k]

(* C5 as claimed: wherever the process stops, every row of a combination      *)
(* finished before the one in progress is in a results file.                  *)
C5_Original == \A k \in 1..CompletedRows : OnDisk(k)

(* C5: if the process stops anywhere but inside a results-file write, every   *)
(* row of a combination finished before the one in progress is in a results   *)
(* file; inside a write this holds when the row before the one being added    *)
(* belongs to another model than the file being written.                      *)
C5_RowsOnDiskUnlessRewriting ==
    /\ pc # "to_csv_rows" => \A k \in 1..CompletedRows : OnDisk(k)
    /\ (pc = "to_csv_rows" /\ CompletedRows >= 1 /\ df[CompletedRows]["Model"] # mname) =>
          \A k \in 1..CompletedRows : OnDisk(k)

C5_Witness ==
    /\ pc = "to_csv_rows"
    /\ wpos = 0
    /\ CompletedRows >= 2
    /\ df[CompletedRows]["Model"] # mname
    /\ df[1]["Model"] = mname

(* the timed calls of the current trial made after repetition 0, in order *)
KeptCalls == SelectSeq(trace.timed, LAMBDA c : c.irep >= 1)

(* the values those calls appended to time_vals *)
OwnTimes == [k \in 1..Len(KeptCalls) |-> KeptCalls[k].sample]

(* per repetition r >= 1 of the current trial, num_samples copies of its delta *)
OwnMemories ==
    IF trace.reps = <<>> THEN <<>>
    ELSE [k \in 1..((Len(trace.reps) - 1) * args.num_samples) |->
             LET r == trace.reps[((k - 1) \div args.num_samples) + 2]
             IN <<r.after - r.before, 1>>]

(* C6: when the samples of a trial are reduced, the latency list holds the    *)
(* num_trials * num_samples values of the timed calls of repetitions 1 and    *)
(* later, and with a probe the memory list has the same length and is, per    *)
(* repetition r >= 1, num_samples copies of (post - pre snapshot of r).       *)
C6_SampleListsAtReduction ==
    pc = "reduce" =>
       /\ Len(all_times) = args.num_trials * args.num_samples
       /\ all_times = OwnTimes
       /\ ProbePresent =>
             /\ Len(all_memories) = Len(all_times)
             /\ Len(trace.reps) = args.num_trials + 1
             /\ \A r \in DOMAIN trace.reps : trace.reps[r].irep = r - 1
             /\ all_memories = OwnMemories

C6_Witness ==
    /\ pc = "reduce"
    /\ ProbePresent
    /\ args.num_trials = 2
    /\ args.num_samples = 2
    /\ Len(all_times) = 4
    /\ all_memories[1] # all_memories[3]

IsAscending(s) == \A k \in 1..(Len(s) - 1) : ~RLess(s[k + 1], s[k])

SameElements(s, t) ==
    /\ Len(s) = Len(t)
    /\ \A v \in Range(s) \cup Range(t) :
          Cardinality({k \in DOMAIN s : s[k] = v}) = Cardinality({k \in DOMAIN t : t[k] = v})

(* the statistics are those the claim names, of an ascending list *)
ClaimedStatistics(stats, sorted) ==
    LET L == Len(sorted)
    IN /\ L >= 1
       /\ IsAscending(sorted)
       /\ (L \div 2) \in 0..(L - 1) /\ stats["median"] = sorted[(L \div 2) + 1]
       /\ (L \div 100) \in 0..(L - 1) /\ stats["perc1"] = sorted[(L \div 100) + 1]
       /\ (L \div 20) \in 0..(L - 1) /\ stats["perc5"] = sorted[(L \div 20) + 1]
       /\ (L \div 10) \in 0..(L - 1) /\ stats["perc10"] = sorted[(L \div 10) + 1]
       /\ L < 100 => \A k \in DOMAIN sorted : ~RLess(sorted[k], stats["perc1"])

(* C7: for a sample list of length L >= 1 the reduction sorts the list        *)
(* ascending and reports the elements at L//2, L//100, L//20 and L//10, all   *)
(* within 0..L-1, perc1 being the minimum when L < 100, for latency and       *)
(* memory alike; it raises only for an empty list.                            *)
C7_PercentileIndexes ==
    /\ pc = "write_cells" =>
          /\ SameElements(all_times, OwnTimes)
          /\ ClaimedStatistics(final_times, all_times)
          /\ SameElements(all_memories, MemoriesOrZero(OwnMemories))
          /\ ClaimedStatistics(final_memories, all_memories)
    /\ pc = "except" => OwnTimes = <<>>

C7_Witness ==
    /\ pc = "write_cells"
    /\ Len(all_times) = MaxLen
    /\ Len(all_memories) = MaxLen
    /\ final_times["perc1"] # final_times["perc5"]
    /\ final_times["perc5"] # final_times["perc10"]
    /\ final_times["perc10"] # final_times["median"]
    /\ final_memories["perc10"] # final_memories["median"]

(* the statistic of a list that a reduction mode names *)
NamedStatistic(mode, list) ==
    LET sorted == SortAsc(list)
    IN IF mode = "avg" THEN RDivInt(RSum(list), Len(list))
       ELSE sorted[ModeIndex(mode, Len(list)) + 1]

LastOutcome == outcomes[Len(outcomes)]

(* C8: the time cell a successful trial writes is 1000 times the statistic    *)
(* named by final_speed_mode of the latencies of that trial's own timed calls *)
(* (repetitions 1 and later), and its memory cell is the statistic named by   *)
(* final_memory_mode of that trial's own memory deltas (the first-repetition  *)
(* value for "first"), in GiB.                                                *)
C8_CellsFromOwnSamples ==
    (pc = "for_dtype" /\ outcomes # <<>> /\ LastOutcome.ok) =>
       /\ LastOutcome.time =
             RMulInt(NamedStatistic(args.final_speed_mode, OwnTimes), MsPerSecond)
       /\ LastOutcome.memory =
             RDivInt(IF args.final_memory_mode = "first" THEN first_memory_used
                     ELSE NamedStatistic(args.final_memory_mode,
                                         MemoriesOrZero(OwnMemories)),
                     BytesPerGiB)

C8_Witness ==
    /\ pc = "for_dtype"
    /\ Len(outcomes) = 2
    /\ outcomes[1].ok /\ outcomes[2].ok
    /\ args.final_speed_mode = "avg"
    /\ args.final_memory_mode = "median"
    /\ outcomes[1].time # outcomes[2].time
    /\ Len(OwnTimes) = 4

(* C9: for an even-length input_size the groups run are (input_size[2i],      *)
(* input_size[2i+1]) in list order, and at the end there are len/2 of them.   *)
C9_InputSizePairs ==
    (Len(args.input_size) % 2 = 0) =>
       /\ \A k \in DOMAIN groups :
             groups[k] = <<args.input_size[2 * k - 1], args.input_size[2 * k]>>
       /\ pc = "done" => Len(groups) * 2 = Len(args.input_size)

C9_Witness ==
    /\ pc = "done"
    /\ Len(groups) = 2
    /\ Len(df) = 2
    /\ df[1]["InputH"] = <<args.input_size[1], 1>>
    /\ df[2]["InputW"] = <<args.input_size[4], 1>>

Unregistered(list) == \E k \in DOMAIN list : list[k] \notin Range(AvailableModelNames)

SelectMode == ~args.all /\ args.select # NoList /\ Len(args.select) > 0

BadSelect == SelectMode /\ Unregistered(args.select)
BadExclude == args.exclude # NoList /\ Unregistered(args.exclude)
OddInputSize == Len(args.input_size) % 2 = 1

(* C10: with an odd-length input_size, an unregistered name in select (in     *)
(* select mode) or an unregistered name in exclude, benchmark() never gets    *)
(* past its checks: each check is passed only by a configuration it accepts,  *)
(* and no model is constructed, no forward call made, no row appended and no  *)
(* file written.                                                              *)
C10_ChecksBeforeMeasurement ==
    /\ (BadSelect \/ BadExclude \/ OddInputSize) =>
          /\ pc \in Prelude
          /\ ~used.any_constructed /\ ~used.any_forward
          /\ attempts = <<>> /\ df = <<>> /\ files = <<>> /\ log = <<>>
    /\ pc = "check_exclude" => ~BadSelect
    /\ pc = "check_input_size" => ~BadSelect /\ ~BadExclude
    /\ pc \notin Prelude => ~BadSelect /\ ~BadExclude /\ ~OddInputSize

C10_Witness ==
    /\ pc = "raised"
    /\ OddInputSize
    /\ ~BadSelect /\ ~BadExclude
    /\ SelectMode
    /\ args.exclude # NoList

(* C11: a model named in exclude is skipped in every selection mode and at   *)
(* every input size: no trial of it is started, the model held is never an   *)
(* instance of it, no row names it and no results file is named for it.      *)
C11_ExcludedSkipped ==
    pc \notin Prelude =>
       /\ \A c \in DOMAIN attempts : model_names[c[2]] \notin Range(exclude)
       /\ model.name \notin Range(exclude)
       /\ \A k \in DOMAIN df : df[k]["Model"] \notin Range(exclude)
       /\ \A n \in Range(exclude) : CsvName(n) \notin DOMAIN files
       /\ \A k \in DOMAIN bodies : bodies[k].name \notin Range(exclude)

C11_Witness ==
    /\ pc = "done"
    /\ ~args.all
    /\ Len(groups) = 2
    /\ \E k \in DOMAIN model_names : model_names[k] \in Range(exclude)
    /\ \E k \in DOMAIN model_names : model_names[k] \notin Range(exclude)
    /\ Len(df) = 2

(* C12: the table only grows: a step leaves it as it is or adds one row at   *)
(* the end, the rows already there keep their place and every cell, and the  *)
(* rounding re-applied to the whole table changes no row rounded before.     *)
C12_TableAppendOnly ==
    [][/\ Len(df') \in {Len(df), Len(df) + 1}
       /\ SubSeq(df', 1, Len(df)) = df
       /\ RoundTable(df') = df']_vars

C12_Witness ==
    /\ pc = "done"
    /\ Len(df) >= 3
    /\ df[1]["Params"] = Round3(Rat(CountParameters("gmflownet"), ParamsUnit))
    /\ df[1]["Params"] # Rat(CountParameters("gmflownet"), ParamsUnit)
    /\ df[1] # df[2]

(* the columns the claim names: the six descriptive ones, then a time and a  *)
(* memory column per configured precision, in the order of first occurrence  *)
ClaimedColumns(dts) ==
    SubSeq(TABLE_LEGENDS, 1, NUM_COMMON_COLUMNS) \o AddDtypeKeys(<<>>, dts)

(* C13 as claimed: for any non-empty list of precisions, repeated entries     *)
(* included, the columns are the claimed ones and the values of a successful *)
(* trial end up under the two columns named for that trial's own precision.  *)
C13_ValuesUnderOwnPrecision ==
    /\ pc \notin {"start"} => columns = ClaimedColumns(args.datatypes)
    /\ (pc = "for_dtype" /\ outcomes # <<>> /\ outcomes[Len(outcomes)].ok) =>
          LET o == outcomes[Len(outcomes)]
          IN /\ TimeCol(o.dtype) \in DOMAIN new_df_dict
             /\ MemoryCol(o.dtype) \in DOMAIN new_df_dict
             /\ new_df_dict[TimeCol(o.dtype)] = o.time
             /\ new_df_dict[MemoryCol(o.dtype)] = o.memory

(* the values of an fp16 trial stored as those of fp32 *)
C13_Mislabelled ==
    ~(/\ pc = "for_dtype"
      /\ Len(outcomes) = 2
      /\ outcomes[1].ok /\ outcomes[2].ok
      /\ outcomes[2].dtype = "fp16"
      /\ "Time(ms)-fp32" \in DOMAIN new_df_dict
      /\ new_df_dict["Time(ms)-fp32"] = outcomes[2].time
      /\ new_df_dict["Time(ms)-fp16"] = outcomes[1].time
      /\ outcomes[1].time # outcomes[2].time)

(* the steps of one repetition, in the order the claim gives *)
ClaimedSteps ==
    IF env.pynvml /\ env.device_handle # None
    THEN <<"empty_cache", "sleep", "pre_snapshot", "get_model", "estimate",
           "post_snapshot", "release">>
    ELSE <<"empty_cache", "sleep", "get_model", "estimate", "release">>

IsPrefix(a, b) == Len(a) <= Len(b) /\ SubSeq(b, 1, Len(a)) = a

(* C14: in every repetition 0..num_trials of every trial the steps taken so  *)
(* far are an initial part of: cache clear, sleep, pre-snapshot (with a      *)
(* probe), construction, timing loop, post-snapshot (with a probe), release; *)
(* a repetition that ends has taken them all, the construction starts only   *)
(* after the steps before it, and the FLOP pass starts after num_trials + 1  *)
(* such repetitions.                                                         *)
C14_RepetitionOrder ==
    /\ IsPrefix(steps, ClaimedSteps)
    /\ pc = "get_model" =>
          /\ irep \in 0..args.num_trials
          /\ steps = SubSeq(ClaimedSteps, 1, Len(steps))
          /\ ClaimedSteps[Len(steps) + 1] = "get_model"
    /\ (pc = "for_rep" /\ irep >= 1) => steps = ClaimedSteps
    /\ pc = "flops_get_model" => irep = args.num_trials + 1

C14_Witness ==
    /\ pc = "for_rep"
    /\ irep = 2
    /\ args.num_trials = 2
    /\ steps = <<"empty_cache", "sleep", "pre_snapshot", "get_model", "estimate",
                 "post_snapshot", "release">>

(* C15: with device_handle None no trial fails for the lack of a probe: the  *)
(* snapshot steps do not raise and the reduction raises only for an empty    *)
(* latency list; every successful trial writes memory 0 under every          *)
(* final_memory_mode, and a time cell as usual.                              *)
C15_NoProbeMemoryZero ==
    /\ [](env.device_handle = None =>
            /\ all_memories = <<>> \/ all_memories = << <<0, 1>> >>
            /\ first_memory_used = <<0, 1>>
            /\ \A k \in DOMAIN outcomes :
                  outcomes[k].ok => /\ outcomes[k].memory = <<0, 1>>
                                    /\ outcomes[k].time # NaN
            /\ pc = "write_cells" =>
                  /\ \A m \in MemoryModes : final_memories[m] = <<0, 1>>
                  /\ TrialValues(final_times, final_memories)[1] =
                         RMulInt(NamedStatistic(args.final_speed_mode, OwnTimes),
                                 MsPerSecond))
    /\ [][env.device_handle = None =>
            /\ pc \in {"pre_snapshot", "post_snapshot"} => pc' # "except"
            /\ (pc = "reduce" /\ all_times # <<>>) => pc' = "write_cells"]_vars

C15_Witness ==
    /\ env.device_handle = None
    /\ pc = "for_dtype"
    /\ args.final_memory_mode = "median"
    /\ args.num_trials = 2
    /\ outcomes # <<>>
    /\ outcomes[1].ok

(***************************************************************************)
(* C16: when csv_path is set, the entry point runs no trial at all: no     *)
(* model is constructed, no forward call is made and no results CSV is     *)
(* written; it loads the table from csv_path and calls save_plot exactly   *)
(* once on it.                                                             *)
(***************************************************************************)
EntryPcs ==
    {"main", "main_device", "main_dispatch", "main_raised", "save_plot", "plot_dropna",
     "plot_log", "plot_scatter", "plot_raised", "main_print", "exit"}

SavePlotCalls == SelectSeq(log, LAMBDA e : e[1] = "save_plot")

C16_ReplotRunsNoTrial ==
    args.csv_path # None =>
        /\ pc \in EntryPcs
        /\ ~used.any_constructed /\ ~used.any_forward
        /\ attempts = <<>> /\ trace.timed = <<>> /\ trace.reps = <<>>
        /\ files = <<>>
        /\ Len(log) = Len(SavePlotCalls)
        /\ (pc \in {"main", "main_device", "main_dispatch", "main_raised", "save_plot"}
               => log = <<>>)
        /\ (args.csv_path \in SavedPaths /\ pc \notin {"main", "main_device", "main_dispatch"}
               => /\ df = SavedTable(args.csv_path).rows
                  /\ columns = SavedTable(args.csv_path).columns)
        /\ (pc \in {"plot_dropna", "plot_log", "plot_scatter", "plot_raised", "main_print",
                    "exit"}
               => log = << <<"save_plot", Stem(args.csv_path), Len(df)>> >>)

C16_Witness ==
    /\ args.csv_path = "saved/both.csv"
    /\ pc = "exit"
    /\ Len(SavePlotCalls) = 1
    /\ Len(plots) = 1
    /\ Len(df) = 2

(***************************************************************************)
(* C17: save_plot leaves the table passed to it unchanged for every        *)
(* combination of plot_log_x and plot_log_y: no row, column or value of it *)
(* is added, removed or modified; the derived (Log10) columns exist only   *)
(* in the temporary copy used for plotting, one per axis whose log flag is *)
(* set.                                                                    *)
(***************************************************************************)
PlotPcs == {"save_plot", "plot_dropna", "plot_log", "plot_scatter"}

(* the derived columns the flags ask for *)
FlaggedLogCols ==
    (IF args.plot_log_x
     THEN {Log10Col(AxisLegend(args.plot_axes[1], args.datatypes[1]))} ELSE {})
    \cup
    (IF args.plot_log_y
     THEN {Log10Col(AxisLegend(args.plot_axes[2], args.datatypes[1]))} ELSE {})

C17_SavePlotLeavesTable ==
    /\ [][(pc \in PlotPcs) => (df' = df /\ columns' = columns)]_vars
    /\ [](pc \in PlotPcs => \A k \in DOMAIN df : DOMAIN df[k] = Range(columns))
    /\ [](pc = "plot_scatter" =>
             \A k \in DOMAIN df_tmp :
                 /\ DOMAIN df_tmp[k].cells = Range(columns) \cup FlaggedLogCols
                 /\ \A c \in Range(columns) :
                        df_tmp[k].cells[c] = df[df_tmp[k].index + 1][c])

C17_Witness ==
    /\ pc = "plot_scatter"
    /\ args.plot_log_x /\ ~args.plot_log_y
    /\ df_tmp # <<>>
    /\ Len(df_tmp) < Len(df)
    /\ "Time(ms)-fp16(Log10)" \in DOMAIN df_tmp[1].cells

(***************************************************************************)
(* C18 as stated: with a memory probe present, the memory value reported   *)
(* under final_memory_mode = first is the device memory used after         *)
(* repetition 0 of the trial minus the device memory used at the           *)
(* pre-repetition snapshot of that same repetition.                        *)
(***************************************************************************)
FirstModeCell ==
    /\ pc = "for_dtype"
    /\ outcomes # <<>>
    /\ LastOutcome.ok
    /\ ProbePresent
    /\ args.final_memory_mode = "first"

C19_ReleasedBeforeNextRepetition ==
    /\ (pc \in {"for_rep", "empty_cache", "sleep", "pre_snapshot"} /\ irep >= 1) =>
           model = NoModel
    /\ (pc = "for_rep" /\ irep >= 1) =>
           (steps # <<>> /\ steps[Len(steps)] = "release")

C19_Witness ==
    /\ pc = "pre_snapshot"
    /\ irep = 2
    /\ model = NoModel
    /\ used.constructed = 2
    /\ ProbePresent

(***************************************************************************)
(* C20: estimate_inference_time makes exactly num_samples + 1 forward      *)
(* calls and returns exactly num_samples values; the i-th value            *)
(* (i = 1..num_samples) is the elapsed time of the i-th call alone divided *)
(* by batch_size, and the call with index 0 is never timed or recorded.    *)
(***************************************************************************)
(* the timed calls of the repetition in progress *)
CallsOfRep == SelectSeq(trace.timed, LAMBDA c : c.irep = irep)

RepetitionPcs ==
    {"for_rep", "empty_cache", "sleep", "pre_snapshot", "get_model", "to_device",
     "count_parameters", "estimate", "post_snapshot", "release"}

C21_OneFlopCallPerTrial ==
    /\ pc \in RepetitionPcs \cup {"flops_get_model", "flops_to_device", "count_flops"} =>
          used.profiled = <<>>
    /\ pc = "write_cells" =>
          /\ Len(used.profiled) = 1
          /\ used.profiled[1].batch = 1
          /\ used.profiled[1].reps_done = args.num_trials + 1
          /\ Len(trace.reps) \in {0, args.num_trials + 1}
          /\ used.profiled[1].built = <<isize, mi, idtype, args.num_trials + 1>>
          /\ used.constructed = args.num_trials + 2

C21_Witness ==
    /\ pc = "write_cells"
    /\ args.batch_size = 2
    /\ args.num_trials = 2
    /\ used.constructed = 4
    /\ Len(used.profiled) = 1

(***************************************************************************)
(* C22: trials run with the input-size groups in list order as the outer   *)
(* loop, the models in the order of the select list or of the registry as  *)
(* the middle loop and the precisions in configured order as the inner     *)
(* loop: when a trial starts, the trials started before it are exactly the *)
(* combinations that precede it in that order; the rows of the table are   *)
(* ordered by (input-size group, model position).                          *)
(***************************************************************************)
(* <<group, model position>> of a row, read from its cells *)
RowKey(row) ==
    <<CHOOSE g \in 0..(Len(args.input_size) - 2) :
          /\ g % 2 = 0
          /\ row["InputH"] = <<args.input_size[g + 1], 1>>
          /\ row["InputW"] = <<args.input_size[g + 2], 1>>,
      CHOOSE m \in DOMAIN model_names : model_names[m] = row["Model"],
      0>>

C22_TrialOrder ==
    /\ [][(pc = "for_dtype" /\ pc' = "for_rep") =>
             /\ input_size = <<args.input_size[isize + 1], args.input_size[isize + 2]>>
             /\ mname = model_names[mi]
             /\ dtype_str' = args.datatypes[idtype + 1]
             /\ args.all => model_names = AvailableModelNames
             /\ (~args.all /\ args.select # NoList /\ args.select # <<>>) =>
                    model_names = args.select
             /\ \A c \in Combinations :
                    Precedes(c, <<isize, mi, idtype>>) <=> c \in DOMAIN attempts
             /\ DOMAIN attempts' = DOMAIN attempts \cup {<<isize, mi, idtype>>}]_vars
    /\ [](\A j, k \in DOMAIN df : j < k => Precedes(RowKey(df[j]), RowKey(df[k])))

C22_Witness ==
    /\ pc = "done"
    /\ args.select = <<"gmflownet", "fastflownet">>
    /\ Len(args.datatypes) = 2
    /\ Len(df) = 4
    /\ df[1]["Model"] = "gmflownet" /\ df[2]["Model"] = "fastflownet"
    /\ df[2]["InputH"] # df[3]["InputH"]
    /\ Cardinality(DOMAIN attempts) = 8

(***************************************************************************)
(* C23: save_plot plots exactly the rows of the table that have no missing *)
(* value in the two selected axis columns: a row is left out of the plot   *)
(* only if one of those two columns is missing in it.                      *)
(***************************************************************************)
XLegend == AxisLegend(args.plot_axes[1], args.datatypes[1])
YLegend == AxisLegend(args.plot_axes[2], args.datatypes[1])

(* index labels of the rows handed to px.scatter *)
PlottedIndexes == {df_tmp[k].index : k \in DOMAIN df_tmp}

C23_PlotsRowsWithBothAxes ==
    (pc = "plot_scatter" /\ XLegend \in Range(columns) /\ YLegend \in Range(columns)) =>
        PlottedIndexes =
            {k - 1 : k \in {j \in DOMAIN df : df[j][XLegend] # NaN /\ df[j][YLegend] # NaN}}

(* a row with both axis cells present that the plot leaves out *)
C23_RowLeftOut ==
    ~(/\ pc = "plot_scatter"
      /\ args.csv_path = "saved/both.csv"
      /\ args.datatypes = <<"fp32">>
      /\ args.plot_axes = <<"flops", "time">>
      /\ df[1]["FLOPs"] # NaN /\ df[1]["Time(ms)-fp32"] # NaN
      /\ df[1]["Time(ms)-fp16"] = NaN
      /\ 0 \notin PlottedIndexes)

(***************************************************************************)
(* C24: in ScopeFlow.forward, for every pyramid level l <= output_level    *)
(* the entry appended to occs is [forward context occlusion, backward      *)
(* context occlusion, refined forward occlusion, refined backward          *)
(* occlusion] of that level, the two context values being those produced   *)
(* by _estimate_occ at that level, although _refine_occ returns occ_cont_f *)
(* in both its second and its fourth position.                             *)
(***************************************************************************)
C24_OccsEntries ==
    \A k \in DOMAIN scope.occs :
        (k - 1 <= scope.output_level) =>
            /\ k \in DOMAIN scope.estimated
            /\ scope.occs[k] =
                  <<scope.estimated[k][1],
                    scope.estimated[k][2],
                    Tensor("refine_occ", k - 1,
                           <<scope.estimated[k][1], Features(scope.x1_raw, k - 1)>>),
                    Tensor("refine_occ", k - 1,
                           <<scope.estimated[k][2], Features(scope.x2_raw, k - 1)>>)>>

C24_Witness ==
    /\ scope.pc = "returned"
    /\ scope.output_level = 1
    /\ Len(scope.occs) = 3
    /\ scope.occs[2][1] # scope.occs[2][2]
    /\ Len(scope.occs[3]) = 2

(***************************************************************************)
(* C25: at the cache clear and the pre-repetition snapshot of repetition 0 *)
(* of every trial, no model instance built by an earlier trial is still    *)
(* held or resident on the device: not the model of the previous trial's   *)
(* FLOP-counting pass, nor the model of a previous trial that failed       *)
(* part-way through a repetition.                                          *)
(***************************************************************************)
BeforeFirstConstruction ==
    /\ pc \in {"empty_cache", "sleep", "pre_snapshot"}
    /\ irep = 0

C25_NoModelOfEarlierTrial ==
    BeforeFirstConstruction => (model = NoModel /\ resident = {})

(* the model of the previous trial's FLOP pass on the device at a pre-snapshot *)
C25_FlopModelLeftOver ==
    ~(/\ pc = "pre_snapshot" /\ irep = 0
      /\ idtype = 1
      /\ outcomes # <<>> /\ outcomes[1].ok
      /\ model.built = <<isize, mi, 0, args.num_trials + 1>>
      /\ model.device = "cuda"
      /\ model.built \in resident)

(* the model of a previous trial that failed in a repetition, at a pre-snapshot *)
C25_FailedModelLeftOver ==
    ~(/\ pc = "pre_snapshot" /\ irep = 0
      /\ idtype = 1
      /\ outcomes # <<>> /\ ~outcomes[1].ok
      /\ model # NoModel
      /\ model.built[3] = 0
      /\ model.built \in resident)

(***************************************************************************)
(* C26: at any moment of the sweep at most one model instance is resident  *)
(* on the compute device: a newly constructed model is moved to the device *)
(* only after the previously built one has been released or its reference  *)
(* replaced, including after a failed trial and after the FLOP-counting    *)
(* pass.                                                                   *)
(***************************************************************************)
C26_AtMostOneResident ==
    /\ Cardinality(resident) <= 1
    /\ resident \subseteq {model.built}
    /\ model.device = "cuda" <=> model.built \in resident
    /\ pc \in {"to_device", "flops_to_device"} => resident = {}

C26_Witness ==
    /\ pc = "estimate"
    /\ irep = 0
    /\ idtype = 1
    /\ outcomes # <<>>
    /\ resident = {<<isize, mi, 1, 0>>}
    /\ Cardinality(DOMAIN attempts) = 2

(***************************************************************************)
(* C27: with num_trials = 0 or num_samples = 0 the latency list is empty   *)
(* at the reduction, so every trial that reaches it fails there and is     *)
(* skipped like any other failing trial: no trial succeeds, the sweep ends *)
(* normally, the table stays empty and no results file and no plot is      *)
(* written.                                                                *)
(***************************************************************************)
NothingToTime == args.num_trials = 0 \/ args.num_samples = 0

C27_EmptyListsSkipTrials ==
    /\ [](NothingToTime =>
             /\ all_times = <<>>
             /\ pc # "write_cells"
             /\ \A k \in DOMAIN outcomes : ~outcomes[k].ok
             /\ \A k \in DOMAIN bodies : ~bodies[k].ok
             /\ df = <<>> /\ files = <<>> /\ log = <<>> /\ plots = <<>>
             /\ pc \notin Reporting)
    /\ [][NothingToTime =>
             /\ pc = "reduce" => (pc' = "except" /\ df' = df)
             /\ pc = "except" => pc' = "for_dtype"
             /\ pc \notin Prelude => pc' # "raised"]_vars

C27_Witness ==
    /\ args.num_trials = 0
    /\ args.num_samples = 2
    /\ pc = "done"
    /\ Cardinality(raised) = 1
    /\ used.any_forward
    /\ bodies # <<>>
    /\ df = <<>>

(***************************************************************************)
(* C28: the Model, Params, FLOPs, InputH, InputW and InputPx cells of a    *)
(* row are written once, by the first precision in configured order whose  *)
(* trial succeeds, with the parameter count of that trial's last           *)
(* repetition and that trial's FLOP count; successful trials of later      *)
(* precisions add only time and memory cells and leave those six cells     *)
(* unchanged.                                                              *)
(***************************************************************************)
CommonColumns == Range(SubSeq(TABLE_LEGENDS, 1, NUM_COMMON_COLUMNS))

Succeeded == {k \in DOMAIN outcomes : outcomes[k].ok}

FirstSucceeded == CHOOSE k \in Succeeded : \A j \in Succeeded : k <= j

C28_CommonCellsWrittenOnce ==
    /\ [](pc \notin Prelude \cup {"for_isize", "for_model", "return", "done"} =>
             IF Succeeded = {}
             THEN DOMAIN new_df_dict = {}
             ELSE /\ CommonColumns \subseteq DOMAIN new_df_dict
                  /\ \A k \in Succeeded : outcomes[k].wrote_common <=> k = FirstSucceeded
                  /\ outcomes[FirstSucceeded].counted =
                         <<isize, mi, FirstSucceeded - 1, args.num_trials>>
                  /\ outcomes[FirstSucceeded].profiled =
                         <<isize, mi, FirstSucceeded - 1, args.num_trials + 1>>
                  /\ new_df_dict["Model"] = mname
                  /\ new_df_dict["Params"] = Rat(CountParameters(mname), ParamsUnit)
                  /\ new_df_dict["FLOPs"] =
                         Rat(ProfiledFlops(mname, input_size[1], input_size[2]), FlopsUnit)
                  /\ new_df_dict["InputH"] = <<input_size[1], 1>>
                  /\ new_df_dict["InputW"] = <<input_size[2], 1>>
                  /\ new_df_dict["InputPx"] = <<input_size[1] * input_size[2], 1>>)
    /\ [][(pc = "write_cells" /\ Succeeded # {}) =>
             /\ \A c \in DOMAIN new_df_dict : c \in DOMAIN new_df_dict'
             /\ (DOMAIN new_df_dict' \ DOMAIN new_df_dict) \cap CommonColumns = {}
             /\ Cardinality(DOMAIN new_df_dict' \ DOMAIN new_df_dict) <= 2
             /\ \A c \in CommonColumns : new_df_dict'[c] = new_df_dict[c]]_vars

C28_Witness ==
    /\ pc = "for_dtype"
    /\ Len(outcomes) = 3
    /\ ~outcomes[1].ok
    /\ outcomes[2].ok /\ outcomes[3].ok
    /\ outcomes[2].wrote_common
    /\ ~outcomes[3].wrote_common
    /\ outcomes[2].counted[3] = 1
    /\ "Params" \in DOMAIN new_df_dict

(***************************************************************************)
(* C29: benchmark() always ends.  As stated (for every configuration the   *)
(* call returns the table) the claim fails: a selected or excluded name    *)
(* that is not registered, or an input_size of odd length, ends the call   *)
(* at the asserts of lines 228, 240 and 242 with no table.                 *)
(***************************************************************************)
(* line 228, 240, 242: the configuration passes the three asserts *)
ChecksPass ==
    /\ args.all \/ args.select = NoList \/ Len(args.select) = 0 \/ AllRegistered(args.select)
    /\ args.exclude = NoList \/ AllRegistered(args.exclude)
    /\ EvenLength(args.input_size)

(* G * M * P: input-size groups, models, precisions *)
MostTrials == (Len(args.input_size) \div 2) * Len(model_names) * Len(args.datatypes)

(* the work done so far stays inside the bounds of the claim *)
WithinBounds ==
    /\ \A c \in DOMAIN attempts : attempts[c] = 1
    /\ Cardinality(DOMAIN attempts) <= MostTrials
    /\ irep <= args.num_trials + 1
    /\ pc \in (RepetitionPcs \ {"for_rep"}) => irep <= args.num_trials
    /\ Len(trace.reps) <= args.num_trials + 1
    /\ i <= args.num_samples + 1
    /\ used.forward <= (args.num_trials + 1) * (args.num_samples + 1)
    /\ Len(used.profiled) <= 1

VideoTrimmed ==
    /\ video.pc \in {"select", "returned"}
    /\ video.N_orig > 3 /\ video.meta
    /\ video.num_left_reps > 0 \/ video.num_right_reps > 0

C30_PredMidInRange ==
    /\ video.pc = "returned" => video.N = Len(video.images)
    /\ VideoTrimmed =>
          /\ 0 <= video.pred_mid
          /\ video.pred_mid <= video.N - 3
          /\ video.pc = "returned" =>
                /\ Len(video.forward_flow_up) = 1
                /\ Len(video.backward_flow_up) = 1

(* the last frame given three times and no frame repeated at the left: two *)
(* frames are cut, pred_mid is not moved, and nothing is selected          *)
C30_RightRepsEmptySlice ==
    ~(/\ video.pc = "returned"
      /\ video.N_orig = 5 /\ video.meta
      /\ video.num_left_reps = 0 /\ video.num_right_reps = 2
      /\ video.N = 3 /\ video.pred_mid = 1
      /\ video.forward_flow_up = <<>>)

(* the first frame given four times and then one other frame: pred_mid is  *)
(* negative                                                                *)
C30_LeftRepsNegative ==
    ~(/\ video.pc = "returned"
      /\ video.N_orig = 5 /\ video.meta
      /\ video.num_left_reps = 3 /\ video.num_right_reps = 0
      /\ video.N = 3 /\ video.pred_mid < 0
      /\ video.forward_flow_up = <<>>)

(* a case where the claim's range holds: one repetition at each end *)
C30_OneRepEachSide ==
    ~(/\ video.pc = "returned"
      /\ video.N_orig = 5 /\ video.meta
      /\ video.num_left_reps = 1 /\ video.num_right_reps = 1
      /\ video.N = 4 /\ video.pred_mid = 1
      /\ Len(video.forward_flow_up) = 1)

====
